---- MODULE Spec2Model ----
(***************************************************************************)
(* gcg: balanced-context split selection (gcg/cli.py) and the currency     *)
(* conversion engine (gcg/currency.py).                                    *)
(*                                                                         *)
(* Monetary values are Python Decimals built from GnuCash's int64          *)
(* numerator over a power-of-ten denominator; sums of a handful of them    *)
(* stay far inside the 28-digit context, so addition and comparison are    *)
(* exact.  A value is modelled as an integer count of minor units.         *)
(***************************************************************************)
EXTENDS Integers, Sequences, FiniteSets, TLC

\* ------------------------------------------------------------------ bounds

\* Longest transaction (number of postings) drawn as input.
MaxSplits == 5
\* Longest transaction whose postings may be in more than one currency.
MaxMixed == 4

Currencies == {"EUR", "GBP"}
\* Signed posting values, in minor units.
Values == {-2, -1, 2, 3}

\* Significant digits of the decimal context (Python's default is 28; the
\* model rounds the same way to fewer digits).
Prec == 3
\* Most quotes the price repository holds.
MaxQuotes == 2
\* Most calls made on one CurrencyConverter instance.
MaxCalls == 2
\* Most postings in a batch whose display currency is determined.
MaxRows == 3

\* Most postings of a transaction in a batch of several transactions.
MaxPostings == 2

\* Build calls made on one CacheManager.
MaxBuilds == 3

\* Candidates in the pool of one subset search.
MaxPool == 3

\* Postings rendered as rows by one call.
MaxRendered == 2

\* Dates are day numbers; quotes are dated on any of them, calls ask for the
\* later ones.
Dates == {0, 1, 2}
CallDates == {1, 2}
\* lookback_days the converter is constructed with; the constructor takes
\* any int, a negative one included.
Lookbacks == {-1, 0, 1}
\* <<value_num, value_denom>> of stored quotes: the rates 0 and 1.5.
QuoteValues == {<<0, 1>>, <<3, 2>>}

\* ------------------------------------------------------------- the ledger

Abs(x) == IF x < 0 THEN -x ELSE x

Range(s) == {s[i] : i \in DOMAIN s}

\* A transaction's postings: position i holds the posting with guid g[i].
\* Guids are primary keys, unique within the book; their order is unrelated
\* to the position of the posting in the transaction.
GuidOrders(n) == {[i \in 1..n |-> i], [i \in 1..n |-> n + 1 - i]}

\* The selector only compares currency names for equality, so the first
\* posting's currency is fixed; longer transactions are in one currency.
CurrencyPatterns(n) ==
    IF n <= MaxMixed THEN {c \in [1..n -> Currencies] : c[1] = "EUR"}
    ELSE {[i \in 1..n |-> "EUR"]}

Transactions(n) ==
    {[i \in 1..n |-> [guid |-> g[i], value |-> v[i], cur |-> c[i]]] :
        g \in GuidOrders(n), v \in [1..n -> Values], c \in CurrencyPatterns(n)}

VARIABLES
    tx_splits,       \* tx.splits: the postings of the transaction, in order
    matching_splits, \* guids of the postings the search matched
    pc,              \* "call": not rendered yet; "done": rendered
    context_mode,    \* args.context of the call that rendered
    ret,             \* selected_splits: what the transaction is rendered with
    selected,        \* _select_balanced_splits' local list when it returned
    exit,            \* the return taken: "fallback" (cli.py:1213),
                     \* "selected" (cli.py:1216), "full" (cli.py:1098)
    stderr           \* warnings printed, each the currency it names

selvars ==
    <<tx_splits, matching_splits, pc, context_mode, ret, selected, exit, stderr>>

VARIABLES
    prices,        \* the rows of the prices table (joined with commodities)
    db_readable,   \* whether sqlite3 can open and query the book
    lookback_days, \* self.lookback_days
    price_cache,   \* self._price_cache: key -> rate or None
    queries,       \* SELECTs executed on the repository so far
    calls,         \* calls made on the converter so far
    last           \* the last call: its arguments and what it returned

fxvars ==
    <<prices, db_readable, lookback_days, price_cache, queries, calls, last>>

VARIABLES
    mode,                      \* currency display mode
    display_splits,            \* splits: the postings displayed
    account_filter_currencies, \* the set from the account filter, or None
    base_currency,             \* the configured base currency
    target_currency,           \* what determine_display_currency returned
    display_pc                 \* "call": not decided yet; "done": returned

dispvars ==
    <<mode, display_splits, account_filter_currencies, base_currency,
      target_currency, display_pc>>

\* ------------------------------------------------------ further components

VARIABLES
    book,        \* tx.splits of every transaction of the book, in posting order
    splits_data, \* the matching rows, in query order: (split, tx)
    tx_rows,     \* rows: the TransactionRows returned
    group_pc     \* "call": not rendered yet; "done": rendered

groupvars ==
    <<book, splits_data, tx_rows, group_pc>>

VARIABLES
    session,  \* the ReplSession: book, running and the settings
    line,     \* the last line handed to run_command
    repl_out, \* what the last command printed on stdout
    repl_err  \* what the last command printed on stderr

replvars ==
    <<session, line, repl_out, repl_err>>

VARIABLES
    sidecar,       \* the cache file at cache_path
    sidecar_clock, \* datetime.now(), counted in build calls
    sidecar_last   \* the last CacheManager call and how it ended

cachevars ==
    <<sidecar, sidecar_clock, sidecar_last>>

VARIABLES
    search_splits, \* the candidate pool handed to _find_balancing_subset
    search_target, \* the sum looked for
    search_size,   \* the size loop's variable
    search_stack,  \* the frames of backtrack: start, remaining, total, idx
    search_chosen, \* chosen_indexes
    search_ret,    \* what the backtrack call that just ended returned
    search_tried,  \* the index combinations whose total has been tested
    search_result, \* what _find_balancing_subset returns
    search_pc      \* where the search stands

searchvars ==
    <<search_splits, search_target, search_size, search_stack, search_chosen,
      search_ret, search_tried, search_result, search_pc>>

VARIABLES
    cli_args,       \* the parsed command line: currency options, signed
    cli_config,     \* the loaded Config: base_currency, fx_lookback_days
    render_splits,  \* splits_data, each posting with value, commodity, date
    converter_base, \* base_currency of the converter built for the rows
    render_target,  \* target_currency of the rows
    render_rows,    \* the SplitRows built so far
    render_pc       \* where _splits_to_rows stands

rowsvars ==
    <<cli_args, cli_config, render_splits, converter_base, render_target,
      render_rows, render_pc>>

latervars ==
    <<groupvars, replvars, cachevars, searchvars, rowsvars>>

outsideGroup ==
    <<selvars, fxvars, dispvars, replvars, cachevars, searchvars, rowsvars>>

outsideRepl ==
    <<selvars, fxvars, dispvars, groupvars, cachevars, searchvars, rowsvars>>

outsideCache ==
    <<selvars, fxvars, dispvars, groupvars, replvars, searchvars, rowsvars>>

outsideSearch ==
    <<selvars, fxvars, dispvars, groupvars, replvars, cachevars, rowsvars>>

outsideRows ==
    <<selvars, dispvars, groupvars, replvars, cachevars, searchvars>>

vars == <<selvars, fxvars, dispvars, latervars>>

\* ------------------------------------------------ _select_balanced_splits

RECURSIVE SumValues(_)
SumValues(seq) ==
    IF seq = <<>> THEN 0 ELSE Head(seq).value + SumValues(Tail(seq))

\* Mutant: the sort key without the minus sign (absolute value ascending).
KeyLessAscending(a, b) ==
    \/ Abs(a.value) < Abs(b.value)
    \/ (Abs(a.value) = Abs(b.value) /\ a.guid < b.guid)

\* key=lambda s: (-abs(Decimal(str(s.value))), s.guid), compared as tuples
KeyLess(a, b) ==
    \/ -Abs(a.value) < -Abs(b.value)
    \/ (-Abs(a.value) = -Abs(b.value) /\ a.guid < b.guid)

RECURSIVE Insert(_, _)
Insert(sorted, x) ==
    IF sorted = <<>> THEN <<x>>
    ELSE IF KeyLess(x, Head(sorted)) THEN <<x>> \o sorted
    ELSE <<Head(sorted)>> \o Insert(Tail(sorted), x)

\* remaining.sort(key=...): ascending by key; keys are distinct (guids are)
RECURSIVE SortRemaining(_)
SortRemaining(seq) ==
    IF seq = <<>> THEN <<>>
    ELSE Insert(SortRemaining(SubSeq(seq, 1, Len(seq) - 1)), seq[Len(seq)])

\* if remaining == 0: return total == target
TotalHits(total, target) == total = target

\* backtrack(start, remaining, total) with its for loop unrolled from idx on.
\* Indexes are 1-based here: range(start, split_count - remaining + 1)
\* becomes idx <= split_count - remaining + 1.
RECURSIVE Backtrack(_, _, _, _, _)
Backtrack(values, target, idx, remaining, total) ==
    IF remaining = 0
    THEN [ok |-> TotalHits(total, target), chosen_indexes |-> <<>>]
    ELSE IF idx > Len(values) - remaining + 1
    THEN [ok |-> FALSE, chosen_indexes |-> <<>>]
    ELSE LET r == Backtrack(values, target, idx + 1, remaining - 1,
                            total + values[idx])
         IN IF r.ok
            THEN [ok |-> TRUE, chosen_indexes |-> <<idx>> \o r.chosen_indexes]
            ELSE Backtrack(values, target, idx + 1, remaining, total)

NoSubset == [found |-> FALSE, subset |-> <<>>]

\* for size in range(1, split_count + 1), from `size` on
RECURSIVE FindFromSize(_, _, _)
FindFromSize(splits, target, size) ==
    IF size > Len(splits) THEN NoSubset
    ELSE LET values == [i \in 1..Len(splits) |-> splits[i].value]
             r == Backtrack(values, target, 1, size, 0)
         IN IF r.ok
            THEN [found |-> TRUE,
                  subset |-> [k \in 1..size |-> splits[r.chosen_indexes[k]]]]
            ELSE FindFromSize(splits, target, size + 1)

\* Mutant: the size loop starting at 2, range(2, split_count + 1).
FindBalancingSubsetFromTwo(splits, target) == FindFromSize(splits, target, 2)

\* _find_balancing_subset(splits, target)
FindBalancingSubset(splits, target) == FindFromSize(splits, target, 1)

\* The keys of balance_by_currency in insertion order: each currency at its
\* first occurrence among the selected postings.
RECURSIVE CurrencyOrder(_)
CurrencyOrder(seq) ==
    IF seq = <<>> THEN <<>>
    ELSE LET init == CurrencyOrder(SubSeq(seq, 1, Len(seq) - 1))
             c == seq[Len(seq)].cur
         IN IF c \in Range(init) THEN init ELSE Append(init, c)

OfCurrency(seq, c) == SelectSeq(seq, LAMBDA s : s.cur = c)

\* Mutant: the zero-balance shortcut missing.
BalanceNeverZero(balance) == FALSE

\* if balance == Decimal("0"): continue
BalanceIsZero(balance) == balance = 0

\* Mutant: target = balance.
TargetSameSign(balance) == balance

\* target = -balance
Target(balance) == -balance

\* Mutant: the fallback taken without printing.
WarningSilent(currency) == <<>>

\* print(f"Warning: Transaction not perfectly balanced in {currency}, ...")
Warning(currency) == <<currency>>

\* Mutant: the fallback returning the partial selection.
FallbackReturnsSelected(all_splits, sel, currency) ==
    [ret |-> sel, selected |-> sel, exit |-> "fallback",
     stderr |-> Warning(currency)]

\* return all_splits, with the local list as it stood
FallbackReturn(all_splits, sel, currency) ==
    [ret |-> all_splits, selected |-> sel, exit |-> "fallback",
     stderr |-> Warning(currency)]

\* for currency, balance in balance_by_currency.items(), from position k of
\* the keys on
RECURSIVE BalanceLoop(_, _, _, _, _, _)
BalanceLoop(all_splits, matched, remaining, order, k, sel) ==
    IF k > Len(order)
    THEN [ret |-> sel, selected |-> sel, exit |-> "selected", stderr |-> <<>>]
    ELSE LET currency == order[k]
             balance == SumValues(OfCurrency(matched, currency))
         IN IF BalanceIsZero(balance)
            THEN BalanceLoop(all_splits, matched, remaining, order, k + 1, sel)
            ELSE LET r == FindBalancingSubset(OfCurrency(remaining, currency),
                                              Target(balance))
                 IN IF ~r.found
                    THEN FallbackReturn(all_splits, sel, currency)
                    ELSE BalanceLoop(all_splits, matched, remaining, order,
                                     k + 1, sel \o r.subset)

Matched(all_splits, matching_guids) ==
    SelectSeq(all_splits, LAMBDA s : s.guid \in matching_guids)

Remaining(all_splits, matching_guids) ==
    SortRemaining(SelectSeq(all_splits, LAMBDA s : s.guid \notin matching_guids))

SelectBalancedSplits(all_splits, matching_guids) ==
    LET matched == Matched(all_splits, matching_guids)
    IN BalanceLoop(all_splits, matched,
                   Remaining(all_splits, matching_guids),
                   CurrencyOrder(matched), 1, matched)

\* ------------------------------------------------ _splits_to_transactions

\* tx_map[guid]["all_splits"]: tx.splits appended once per matching row
RECURSIVE Repeat(_, _)
Repeat(seq, n) == IF n = 0 THEN <<>> ELSE seq \o Repeat(seq, n - 1)

\* Mutant: all_splits used as gathered, duplicates included.
NoDedupe(seq) == seq

\* for s in data["all_splits"]: if s.guid not in seen_guids: ..., from
\* position i on
RECURSIVE DedupeFrom(_, _, _, _)
DedupeFrom(seq, i, seen_guids, unique_all_splits) ==
    IF i > Len(seq) THEN unique_all_splits
    ELSE IF seq[i].guid \in seen_guids
    THEN DedupeFrom(seq, i + 1, seen_guids, unique_all_splits)
    ELSE DedupeFrom(seq, i + 1, seen_guids \cup {seq[i].guid},
                    Append(unique_all_splits, seq[i]))

\* Dedupe all_splits by guid, keeping first occurrences in order
Dedupe(seq) == DedupeFrom(seq, 1, {}, <<>>)

UniqueAllSplits == Dedupe(Repeat(tx_splits, Cardinality(matching_splits)))

\* Further components at rest.

\* No batch of matching rows is being grouped into transactions.
GroupIdle ==
    /\ book = <<>>
    /\ splits_data = <<>>
    /\ tx_rows = <<>>
    /\ group_pc = "idle"

\* No REPL session exists.
ReplIdle ==
    /\ session = <<>>
    /\ line = <<>>
    /\ repl_out = ""
    /\ repl_err = ""

\* No sidecar cache is managed.
CacheIdle ==
    /\ sidecar = <<>>
    /\ sidecar_clock = 0
    /\ sidecar_last = <<>>

\* No subset search is running.
SearchIdle ==
    /\ search_splits = <<>>
    /\ search_target = 0
    /\ search_size = 0
    /\ search_stack = <<>>
    /\ search_chosen = <<>>
    /\ search_ret = FALSE
    /\ search_tried = <<>>
    /\ search_result = NoSubset
    /\ search_pc = "idle"

\* No rows are being rendered.
RowsIdle ==
    /\ cli_args = <<>>
    /\ cli_config = <<>>
    /\ render_splits = <<>>
    /\ converter_base = ""
    /\ render_target = ""
    /\ render_rows = <<>>
    /\ render_pc = "idle"

LaterIdle ==
    /\ GroupIdle
    /\ ReplIdle
    /\ CacheIdle
    /\ SearchIdle
    /\ RowsIdle

\* No display currency is being determined.
DispIdle ==
    /\ mode = "none"
    /\ display_splits = <<>>
    /\ account_filter_currencies = [given |-> FALSE, currencies |-> {}]
    /\ base_currency = ""
    /\ target_currency = ""
    /\ display_pc = "idle"

\* The converter is not part of rendering a transaction's postings.
FxIdle ==
    /\ prices = {}
    /\ db_readable = TRUE
    /\ lookback_days = 0
    /\ price_cache = <<>>
    /\ queries = 0
    /\ calls = 0
    /\ last = [op |-> "none"]

InitSel ==
    /\ FxIdle
    /\ DispIdle
    /\ LaterIdle
    /\ \E n \in 1..MaxSplits :
        /\ tx_splits \in Transactions(n)
        /\ matching_splits \in (SUBSET (1..n)) \ {{}}
    /\ pc = "call"
    /\ context_mode = "none"
    /\ ret = <<>>
    /\ selected = <<>>
    /\ exit = "none"
    /\ stderr = <<>>

\* grep --full-tx --context balanced
RenderBalanced ==
    /\ pc = "call"
    /\ \E r \in {SelectBalancedSplits(UniqueAllSplits, matching_splits)} :
        /\ ret' = r.ret
        /\ selected' = r.selected
        /\ exit' = r.exit
        /\ stderr' = r.stderr
    /\ context_mode' = "balanced"
    /\ pc' = "done"
    /\ UNCHANGED <<tx_splits, matching_splits>>
    /\ UNCHANGED fxvars
    /\ UNCHANGED dispvars
    /\ UNCHANGED latervars

\* grep --full-tx (context full, the default)
RenderFull ==
    /\ pc = "call"
    /\ ret' = UniqueAllSplits
    /\ context_mode' = "full"
    /\ exit' = "full"
    /\ pc' = "done"
    /\ UNCHANGED <<tx_splits, matching_splits, selected, stderr>>
    /\ UNCHANGED fxvars
    /\ UNCHANGED dispvars
    /\ UNCHANGED latervars

NextSel == RenderBalanced \/ RenderFull

SpecSel == InitSel /\ [][NextSel]_vars

\* ------------------------------------------------------ decimal arithmetic
\* A Decimal is modelled by its value, the fraction n/d in lowest terms with
\* d >= 1 (Decimal equality is numeric).  Division and multiplication round
\* the exact result to Prec significant digits, ties to even, as the decimal
\* context does.  None is a record of the same shape with d = 0.

None == [n |-> 0, d |-> 0]

RECURSIVE GCD(_, _)
GCD(a, b) == IF b = 0 THEN a ELSE GCD(b, a % b)

Norm(n, d) == LET g == GCD(Abs(n), d) IN [n |-> n \div g, d |-> d \div g]

IntDec(i) == [n |-> i, d |-> 1]

One == IntDec(1)

RECURSIVE Pow10(_)
Pow10(k) == IF k = 0 THEN 1 ELSE 10 * Pow10(k - 1)

\* a/d > 0 rounded half-even to an integer
HalfEven(a, d) ==
    LET q == a \div d
        r == a % d
    IN IF 2 * r > d \/ (2 * r = d /\ q % 2 = 1) THEN q + 1 ELSE q

\* a/d > 0, times 10^e, rounded to Prec significant digits
RECURSIVE ScaleRound(_, _, _)
ScaleRound(a, d, e) ==
    IF a >= d * Pow10(Prec) THEN ScaleRound(a, d * 10, e + 1)
    ELSE IF a < d * Pow10(Prec - 1) THEN ScaleRound(a * 10, d, e - 1)
    ELSE LET c == HalfEven(a, d)
         IN IF e >= 0 THEN Norm(c * Pow10(e), 1) ELSE Norm(c, Pow10(-e))

RoundPrec(n, d) ==
    IF n = 0 THEN IntDec(0)
    ELSE LET r == ScaleRound(Abs(n), d, 0)
         IN IF n < 0 THEN [n |-> -r.n, d |-> r.d] ELSE r

\* x / y for y # 0
DecDiv(x, y) ==
    RoundPrec(IF y.n < 0 THEN -(x.n * y.d) ELSE x.n * y.d, x.d * Abs(y.n))

\* x * y
DecMul(x, y) == RoundPrec(x.n * y.n, x.d * y.d)

\* ------------------------------------------------------- CurrencyConverter

Keys == {<<f, t, d>> : f \in Currencies, t \in Currencies, d \in Dates}

Quotes ==
    {[commodity |-> c1, currency |-> c2, date |-> d,
      value_num |-> v[1], value_denom |-> v[2]] :
        c1 \in Currencies, c2 \in Currencies, d \in Dates, v \in QuoteValues}

SameSlot(p, q) ==
    p.commodity = q.commodity /\ p.currency = q.currency /\ p.date = q.date

\* Repositories of at most k quotes between distinct currencies, at most one
\* per (commodity, currency, date).
RECURSIVE Repositories(_)
Repositories(k) ==
    IF k = 0 THEN {{}}
    ELSE LET smaller == Repositories(k - 1)
         IN smaller \cup
            {P \cup {q} : P \in smaller,
                          q \in {x \in Quotes : x.commodity # x.currency}}

WellFormed(P) == \A p, q \in P : SameSlot(p, q) => p = q

\* Amounts handed to convert: 7 and -2.5
Amounts == {IntDec(7), [n |-> -5, d |-> 2]}

NoResult ==
    [amount |-> None, currency |-> "", original_amount |-> None,
     original_currency |-> "", fx_rate |-> None, converted |-> FALSE]

\* Mutant: the lower end of the window excluded, date(p.date) > earliest_date.
InWindowExclusive(commodity, currency, on_date) ==
    LET earliest_date == on_date - lookback_days
    IN {q \in prices : /\ q.commodity = commodity
                       /\ q.currency = currency
                       /\ q.date <= on_date
                       /\ q.date > earliest_date}

\* WHERE c1.mnemonic = ? AND c2.mnemonic = ?
\*   AND date(p.date) <= on_date AND date(p.date) >= earliest_date
InWindow(commodity, currency, on_date) ==
    LET earliest_date == on_date - lookback_days
    IN {q \in prices : /\ q.commodity = commodity
                       /\ q.currency = currency
                       /\ q.date <= on_date
                       /\ q.date >= earliest_date}

\* ORDER BY p.date DESC LIMIT 1
Latest(rows) == CHOOSE q \in rows : \A r \in rows : r.date <= q.date

\* Decimal(num) / Decimal(denom)
QuoteRate(q) == DecDiv(IntDec(q.value_num), IntDec(q.value_denom))

Raised(selects) == [outcome |-> "raise", rate |-> None, selects |-> selects]

Returned(rate, selects) ==
    [outcome |-> "return", rate |-> rate, selects |-> selects]

\* Mutant: the inverse quote tried before the direct one.
LookupPriceInverseFirst(from_currency, to_currency, on_date) ==
    IF ~db_readable THEN Returned(None, 0)
    ELSE LET direct == InWindow(from_currency, to_currency, on_date)
             inverse == InWindow(to_currency, from_currency, on_date)
         IN IF inverse # {}
            THEN IF Latest(inverse).value_denom = 0 THEN Raised(1)
                 ELSE IF QuoteRate(Latest(inverse)).n = 0 THEN Raised(1)
                 ELSE Returned(DecDiv(One, QuoteRate(Latest(inverse))), 1)
            ELSE IF direct # {}
            THEN IF Latest(direct).value_denom = 0 THEN Raised(2)
                 ELSE Returned(QuoteRate(Latest(direct)), 2)
            ELSE Returned(None, 2)

\* Mutant: sqlite3.Error not caught, the failure to read the book escaping.
LookupPriceUncaught(from_currency, to_currency, on_date) ==
    IF ~db_readable THEN Raised(0)
    ELSE LET direct == InWindow(from_currency, to_currency, on_date)
             inverse == InWindow(to_currency, from_currency, on_date)
         IN IF direct # {}
            THEN IF Latest(direct).value_denom = 0 THEN Raised(1)
                 ELSE Returned(QuoteRate(Latest(direct)), 1)
            ELSE IF inverse # {}
            THEN IF Latest(inverse).value_denom = 0 THEN Raised(2)
                 ELSE IF QuoteRate(Latest(inverse)).n = 0 THEN Raised(2)
                 ELSE Returned(DecDiv(One, QuoteRate(Latest(inverse))), 2)
            ELSE Returned(None, 2)

\* Mutant: the inverse quote's rate returned as it is stored, not turned.
LookupPriceUnturned(from_currency, to_currency, on_date) ==
    IF ~db_readable THEN Returned(None, 0)
    ELSE LET direct == InWindow(from_currency, to_currency, on_date)
             inverse == InWindow(to_currency, from_currency, on_date)
         IN IF direct # {}
            THEN IF Latest(direct).value_denom = 0 THEN Raised(1)
                 ELSE Returned(QuoteRate(Latest(direct)), 1)
            ELSE IF inverse # {}
            THEN IF Latest(inverse).value_denom = 0 THEN Raised(2)
                 ELSE Returned(QuoteRate(Latest(inverse)), 2)
            ELSE Returned(None, 2)

\* _lookup_price: the rate or None, or the exception that escapes it
\* (decimal.DivisionByZero is no sqlite3.Error), and the SELECTs it ran.
LookupPrice(from_currency, to_currency, on_date) ==
    IF ~db_readable THEN Returned(None, 0)
    ELSE LET direct == InWindow(from_currency, to_currency, on_date)
             inverse == InWindow(to_currency, from_currency, on_date)
         IN IF direct # {}
            THEN IF Latest(direct).value_denom = 0 THEN Raised(1)
                 ELSE Returned(QuoteRate(Latest(direct)), 1)
            ELSE IF inverse # {}
            THEN IF Latest(inverse).value_denom = 0 THEN Raised(2)
                 ELSE IF QuoteRate(Latest(inverse)).n = 0 THEN Raised(2)
                 ELSE Returned(DecDiv(One, QuoteRate(Latest(inverse))), 2)
            ELSE Returned(None, 2)

\* Mutant: the insertion evicting every other entry.
PutEvicting(cache, key, rate) == [k \in {key} |-> rate]

\* Mutant: the result stored under the reverse key as well.
PutBothDirections(cache, key, rate) ==
    [k \in DOMAIN cache \cup {key, <<key[2], key[1], key[3]>>} |->
        IF k = key \/ k = <<key[2], key[1], key[3]>> THEN rate ELSE cache[k]]

\* self._price_cache[key] = rate
Put(cache, key, rate) ==
    [k \in DOMAIN cache \cup {key} |-> IF k = key THEN rate ELSE cache[k]]

\* Mutant: get_price without the reverse-key branch.
GetPriceCallNoReverse(cache, from_currency, to_currency, on_date) ==
    LET cache_key == <<from_currency, to_currency, on_date>>
    IN IF from_currency = to_currency
       THEN [outcome |-> "return", rate |-> One, cache |-> cache, selects |-> 0]
       ELSE IF cache_key \in DOMAIN cache
       THEN [outcome |-> "return", rate |-> cache[cache_key],
             cache |-> cache, selects |-> 0]
       ELSE LET l == LookupPrice(from_currency, to_currency, on_date)
            IN IF l.outcome = "raise"
               THEN [outcome |-> "raise", rate |-> None, cache |-> cache,
                     selects |-> l.selects]
               ELSE [outcome |-> "return", rate |-> l.rate,
                     cache |-> Put(cache, cache_key, l.rate),
                     selects |-> l.selects]

\* get_price: what it returns (or that it raises), the cache it leaves and
\* the SELECTs it ran.
GetPriceCall(cache, from_currency, to_currency, on_date) ==
    LET cache_key == <<from_currency, to_currency, on_date>>
        reverse_key == <<to_currency, from_currency, on_date>>
    IN IF from_currency = to_currency
       THEN [outcome |-> "return", rate |-> One, cache |-> cache, selects |-> 0]
       ELSE IF cache_key \in DOMAIN cache
       THEN [outcome |-> "return", rate |-> cache[cache_key],
             cache |-> cache, selects |-> 0]
       ELSE IF reverse_key \in DOMAIN cache /\ cache[reverse_key] # None
       THEN IF cache[reverse_key].n = 0
            THEN [outcome |-> "raise", rate |-> None, cache |-> cache,
                  selects |-> 0]
            ELSE LET rate == DecDiv(One, cache[reverse_key])
                 IN [outcome |-> "return", rate |-> rate,
                     cache |-> Put(cache, cache_key, rate), selects |-> 0]
       ELSE LET l == LookupPrice(from_currency, to_currency, on_date)
            IN IF l.outcome = "raise"
               THEN [outcome |-> "raise", rate |-> None, cache |-> cache,
                     selects |-> l.selects]
               ELSE [outcome |-> "return", rate |-> l.rate,
                     cache |-> Put(cache, cache_key, l.rate),
                     selects |-> l.selects]

\* Mutant: convert without its same-currency shortcut.
ConvertNeverSame(from_currency, to_currency) == FALSE

\* if from_currency == to_currency:
ConvertSameCurrency(from_currency, to_currency) == from_currency = to_currency

SameCurrencyResult(amount, from_currency, to_currency) ==
    [amount |-> amount, currency |-> to_currency,
     original_amount |-> amount, original_currency |-> from_currency,
     fx_rate |-> One, converted |-> FALSE]

\* Mutant: the failed conversion labelled with the target currency.
NoRateResultInTarget(amount, from_currency, to_currency) ==
    [amount |-> amount, currency |-> to_currency,
     original_amount |-> amount, original_currency |-> from_currency,
     fx_rate |-> None, converted |-> FALSE]

\* if rate is None: conversion failed, return original
NoRateResult(amount, from_currency, to_currency) ==
    [amount |-> amount, currency |-> from_currency,
     original_amount |-> amount, original_currency |-> from_currency,
     fx_rate |-> None, converted |-> FALSE]

\* Mutant: the amount divided by the rate.
ConvertedAmountDivided(amount, rate) ==
    IF rate.n = 0 THEN amount ELSE DecDiv(amount, rate)

\* converted_amount = amount * rate
ConvertedAmount(amount, rate) == DecMul(amount, rate)

ConvertedResult(amount, from_currency, to_currency, rate) ==
    [amount |-> ConvertedAmount(amount, rate), currency |-> to_currency,
     original_amount |-> amount, original_currency |-> from_currency,
     fx_rate |-> rate, converted |-> TRUE]

\* convert: the ConversionResult (or that it raises), whether and with what
\* outcome get_price was called, the cache it leaves and the SELECTs it ran.
ConvertCall(cache, amount, from_currency, to_currency, on_date) ==
    IF ConvertSameCurrency(from_currency, to_currency)
    THEN [outcome |-> "return", price_called |-> FALSE, rate |-> None,
          result |-> SameCurrencyResult(amount, from_currency, to_currency),
          cache |-> cache, selects |-> 0]
    ELSE LET g == GetPriceCall(cache, from_currency, to_currency, on_date)
         IN IF g.outcome = "raise"
            THEN [outcome |-> "raise", price_called |-> TRUE, rate |-> None,
                  result |-> NoResult, cache |-> g.cache,
                  selects |-> g.selects]
            ELSE [outcome |-> "return", price_called |-> TRUE,
                  rate |-> g.rate,
                  result |->
                    IF g.rate = None
                    THEN NoRateResult(amount, from_currency, to_currency)
                    ELSE ConvertedResult(amount, from_currency, to_currency,
                                         g.rate),
                  cache |-> g.cache, selects |-> g.selects]

\* The selector is not part of a converter's calls.
SelIdle ==
    /\ tx_splits = <<>>
    /\ matching_splits = {}
    /\ pc = "idle"
    /\ context_mode = "none"
    /\ ret = <<>>
    /\ selected = <<>>
    /\ exit = "none"
    /\ stderr = <<>>

\* CurrencyConverter(db_path, base_currency, lookback_days) over a static book
InitFx ==
    /\ SelIdle
    /\ DispIdle
    /\ LaterIdle
    /\ db_readable \in BOOLEAN
    /\ prices \in {P \in Repositories(MaxQuotes) :
                     WellFormed(P) /\ (~db_readable => P = {})}
    /\ lookback_days \in Lookbacks
    /\ price_cache = <<>>
    /\ queries = 0
    /\ calls = 0
    /\ last = [op |-> "none"]

\* conv.get_price(from_currency, to_currency, on_date)
GetPrice ==
    /\ calls < MaxCalls
    /\ \E from_currency \in Currencies, to_currency \in Currencies,
          on_date \in CallDates :
        LET g == GetPriceCall(price_cache, from_currency, to_currency, on_date)
        IN /\ price_cache' = g.cache
           /\ queries' = queries + g.selects
           /\ last' = [op |-> "get_price", amount |-> None,
                       from_currency |-> from_currency,
                       to_currency |-> to_currency, on_date |-> on_date,
                       outcome |-> g.outcome, price_called |-> TRUE,
                       rate |-> g.rate, result |-> NoResult,
                       selects |-> g.selects]
    /\ calls' = calls + 1
    /\ UNCHANGED <<prices, db_readable, lookback_days>>
    /\ UNCHANGED selvars
    /\ UNCHANGED dispvars
    /\ UNCHANGED latervars

\* conv.convert(amount, from_currency, to_currency, on_date)
Convert ==
    /\ calls < MaxCalls
    /\ \E amount \in Amounts, from_currency \in Currencies,
          to_currency \in Currencies, on_date \in CallDates :
        LET c == ConvertCall(price_cache, amount, from_currency, to_currency,
                             on_date)
        IN /\ price_cache' = c.cache
           /\ queries' = queries + c.selects
           /\ last' = [op |-> "convert", amount |-> amount,
                       from_currency |-> from_currency,
                       to_currency |-> to_currency, on_date |-> on_date,
                       outcome |-> c.outcome, price_called |-> c.price_called,
                       rate |-> c.rate, result |-> c.result,
                       selects |-> c.selects]
    /\ calls' = calls + 1
    /\ UNCHANGED <<prices, db_readable, lookback_days>>
    /\ UNCHANGED selvars
    /\ UNCHANGED dispvars
    /\ UNCHANGED latervars

NextFx == GetPrice \/ Convert

SpecFx == InitFx /\ [][NextFx]_vars

\* ----------------------------------------------- determine_display_currency

Modes == {"auto", "base", "split", "account"}

\* The commodity of a posting whose account has none.
NoCommodity == "???"

\* None returned: each posting is shown in its own currency.
NoTarget == "None"

\* account_filter_currencies: None, or a set of currencies (empty included).
FilterCurrencies ==
    {[given |-> FALSE, currencies |-> {}]} \cup
    {[given |-> TRUE, currencies |-> S] : S \in SUBSET Currencies}

\* The postings displayed, each with the commodity of its account.
RECURSIVE SplitLists(_)
SplitLists(n) ==
    IF n = 0 THEN {<<>>}
    ELSE LET shorter == SplitLists(n - 1)
         IN shorter \cup
            {Append(l, [commodity |-> c]) :
                l \in {x \in shorter : Len(x) = n - 1},
                c \in Currencies \cup {NoCommodity}}

\* account_filter_currencies and len(account_filter_currencies) == 1
SingleCurrency(filter) ==
    filter.given /\ filter.currencies # {} /\ Cardinality(filter.currencies) = 1

\* next(iter(s)) of a set with one member
NextIter(s) == CHOOSE c \in s : TRUE

\* currencies: the mnemonics of the postings whose account has a commodity
RECURSIVE SplitCurrencies(_)
SplitCurrencies(list) ==
    IF list = <<>> THEN {}
    ELSE IF Head(list).commodity # NoCommodity
         THEN {Head(list).commodity} \cup SplitCurrencies(Tail(list))
         ELSE SplitCurrencies(Tail(list))

\* Mutant: account mode falling back to the base currency.
AccountModeOrBase(filter, base) ==
    IF SingleCurrency(filter) THEN NextIter(filter.currencies) ELSE base

\* if mode == "account":
AccountMode(filter, base) ==
    IF SingleCurrency(filter) THEN NextIter(filter.currencies) ELSE NoTarget

\* Mutant: the shared posting currency tried before the account filter.
AutoModeSplitsFirst(list, filter, base) ==
    LET currencies == SplitCurrencies(list)
    IN IF Cardinality(currencies) = 1 THEN NextIter(currencies)
       ELSE IF SingleCurrency(filter) THEN NextIter(filter.currencies)
       ELSE base

\* mode == "auto"
AutoMode(list, filter, base) ==
    IF SingleCurrency(filter) THEN NextIter(filter.currencies)
    ELSE LET currencies == SplitCurrencies(list)
         IN IF Cardinality(currencies) = 1 THEN NextIter(currencies)
            ELSE base

\* Mutant: a single account-filter currency honoured in every mode.
DetermineFilterFirst(m, list, filter, base) ==
    IF SingleCurrency(filter) THEN NextIter(filter.currencies)
    ELSE IF m = "split" THEN NoTarget
    ELSE IF m = "base" THEN base
    ELSE IF m = "account" THEN AccountMode(filter, base)
    ELSE AutoMode(list, filter, base)

DetermineDisplayCurrency(m, list, filter, base) ==
    IF m = "split" THEN NoTarget
    ELSE IF m = "base" THEN base
    ELSE IF m = "account" THEN AccountMode(filter, base)
    ELSE AutoMode(list, filter, base)

InitDisp ==
    /\ SelIdle
    /\ FxIdle
    /\ LaterIdle
    /\ mode \in Modes
    /\ display_splits \in SplitLists(MaxRows)
    /\ account_filter_currencies \in FilterCurrencies
    /\ base_currency \in Currencies
    /\ target_currency = ""
    /\ display_pc = "call"

\* target_currency = determine_display_currency(currency_mode, splits,
\*                       account_currencies, base_currency)
DetermineDisplay ==
    /\ display_pc = "call"
    /\ target_currency' =
        DetermineDisplayCurrency(mode, display_splits,
                                 account_filter_currencies, base_currency)
    /\ display_pc' = "done"
    /\ UNCHANGED <<mode, display_splits, account_filter_currencies,
                   base_currency>>
    /\ UNCHANGED selvars
    /\ UNCHANGED fxvars
    /\ UNCHANGED latervars

NextDisp == DetermineDisplay

SpecDisp == InitDisp /\ [][NextDisp]_vars

\* ---------------------------------------------- everything but one component

OutsideGroupIdle ==
    /\ SelIdle
    /\ FxIdle
    /\ DispIdle
    /\ ReplIdle
    /\ CacheIdle
    /\ SearchIdle
    /\ RowsIdle

OutsideReplIdle ==
    /\ SelIdle
    /\ FxIdle
    /\ DispIdle
    /\ GroupIdle
    /\ CacheIdle
    /\ SearchIdle
    /\ RowsIdle

OutsideCacheIdle ==
    /\ SelIdle
    /\ FxIdle
    /\ DispIdle
    /\ GroupIdle
    /\ ReplIdle
    /\ SearchIdle
    /\ RowsIdle

OutsideSearchIdle ==
    /\ SelIdle
    /\ FxIdle
    /\ DispIdle
    /\ GroupIdle
    /\ ReplIdle
    /\ CacheIdle
    /\ RowsIdle

OutsideRowsIdle ==
    /\ SelIdle
    /\ DispIdle
    /\ GroupIdle
    /\ ReplIdle
    /\ CacheIdle
    /\ SearchIdle

\* --------------------------------------- _splits_to_transactions, full context
\* grep --full-tx over a batch of matching rows of several transactions.

TxGuids == {"t1", "t2"}

\* The postings of a transaction, guids first..(first + n - 1), in ascending
\* or descending guid order.
Postings(t, first, n) ==
    {[i \in 1..n |-> [guid |-> first + i - 1, tx |-> t]],
     [i \in 1..n |-> [guid |-> first + n - i, tx |-> t]]}

\* Books of two transactions of at most MaxPostings postings each.
Books ==
    UNION {{[t \in TxGuids |-> IF t = "t1" THEN p1 ELSE p2] :
                p1 \in Postings("t1", 1, n1),
                p2 \in Postings("t2", n1 + 1, n2)} :
            n1 \in 1..MaxPostings, n2 \in 1..MaxPostings}

\* The postings of a book.
BookSplits(b) == UNION {Range(b[t]) : t \in DOMAIN b}

\* Batches of matching rows: the postings the query matched, each once, in
\* any order, each with its transaction.
RECURSIVE Batches(_, _)
Batches(S, n) ==
    IF n = 0 THEN {<<>>}
    ELSE LET shorter == Batches(S, n - 1)
         IN shorter \cup
            {Append(l, [split |-> s.guid, tx |-> s.tx]) :
                l \in {x \in shorter : Len(x) = n - 1},
                s \in S}

NoRepeat(data) ==
    \A i, j \in DOMAIN data : i # j => data[i].split # data[j].split

\* Mutant: a new entry for every row, whether or not its transaction has one.
TxOrderPerRow(data) == [i \in DOMAIN data |-> data[i].tx]

\* The keys of tx_map in insertion order: the transactions of the batch in
\* order of first appearance (if tx.guid not in tx_map).
TxOrder(data) ==
    LET firsts == {i \in DOMAIN data :
                      \A j \in 1..(i - 1) : data[j].tx # data[i].tx}
        nth[k \in 1..Cardinality(firsts)] ==
            CHOOSE i \in firsts : Cardinality({j \in firsts : j < i}) = k - 1
    IN [k \in 1..Cardinality(firsts) |-> data[nth[k]].tx]

\* tx_map[guid]["matching_splits"]
MatchingSplits(data, t) ==
    {data[i].split : i \in {j \in DOMAIN data : data[j].tx = t}}

\* tx_map[guid]["all_splits"]: tx.splits appended once per row of the
\* transaction
AllSplits(data, t) ==
    Repeat(book[t], Cardinality({j \in DOMAIN data : data[j].tx = t}))

\* The TransactionRow of a transaction in full context: its tx_guid and the
\* split_guids of its SplitRows.
TransactionRow(data, t) ==
    [tx_guid |-> t, splits |-> Dedupe(AllSplits(data, t))]

\* rows, one per key of tx_map
SplitsToTransactions(data) ==
    LET order == TxOrder(data)
    IN [k \in DOMAIN order |-> TransactionRow(data, order[k])]

InitGroup ==
    /\ OutsideGroupIdle
    /\ book \in Books
    /\ splits_data \in {d \in Batches(BookSplits(book),
                                      Cardinality(BookSplits(book))) :
                          d # <<>> /\ NoRepeat(d)}
    /\ tx_rows = <<>>
    /\ group_pc = "call"

\* _splits_to_transactions(splits_data, ...) with args.context = "full"
RenderFullTx ==
    /\ group_pc = "call"
    /\ tx_rows' = SplitsToTransactions(splits_data)
    /\ group_pc' = "done"
    /\ UNCHANGED <<book, splits_data>>
    /\ UNCHANGED outsideGroup

NextGroup == RenderFullTx

SpecGroup == InitGroup /\ [][NextGroup]_vars

\* --------------------------------------------------------------- ReplSession

\* Lines typed at the prompt, as shlex.split yields them; <<>> is a blank
\* line or a comment, Unparsable a line shlex.split rejects.
Unparsable == <<"\"unterminated">>

CommandWords ==
    {"quit", "QUIT", "Exit", "help", "Help", "open", "set", "accounts",
     "Accounts", "grep", "ledger", "tx", "split", "foobar"}

SetArgs ==
    {<<>>, <<"format">>, <<"format", "json">>, <<"format", "xml">>,
     <<"currency", "split">>, <<"currency", "best">>,
     <<"base-currency", "gbp">>, <<"full-account", "on">>,
     <<"Full-Account", "OFF">>, <<"colour", "on">>}

Lines ==
    {<<>>, Unparsable} \cup
    {<<w>> : w \in CommandWords} \cup
    {<<"open", "book.gnucash">>, <<"accounts", "Assets">>} \cup
    {<<"set">> \o a : a \in SetArgs} \cup {<<"SET">> \o a : a \in SetArgs}

\* str.lower() on the words that occur
Lower(w) ==
    CASE w = "QUIT" -> "quit"
      [] w = "Exit" -> "exit"
      [] w = "Help" -> "help"
      [] w = "Accounts" -> "accounts"
      [] w = "SET" -> "set"
      [] w = "Full-Account" -> "full-account"
      [] w = "OFF" -> "off"
      [] OTHER -> w

\* str.upper() on the words that occur
Upper(w) ==
    CASE w = "gbp" -> "GBP"
      [] OTHER -> w

NoBookOpen == "No book open. Use 'open [path]' first."

\* What a command leaves: the session and what it printed.
Outcome(s, out, err) == [session |-> s, out |-> out, err |-> err]

\* close_book, then open_gnucash_book(book_path): opened, or BookOpenError
OpenBook(s, path, opened) ==
    IF opened
    THEN Outcome([s EXCEPT !.book = "book", !.book_info = "info",
                           !.book_path = path], "Opened", "")
    ELSE Outcome([s EXCEPT !.book = "None", !.book_info = "None",
                           !.book_path = "None"], "", "Error")

\* cmd_set
CmdSet(s, args) ==
    IF Len(args) < 2 THEN Outcome(s, "Current settings", "")
    ELSE LET setting == Lower(args[1])
             value == args[2]
         IN IF setting = "format"
            THEN IF value \in {"table", "csv", "json"}
                 THEN Outcome([s EXCEPT !.output_format = value],
                              "Output format set", "")
                 ELSE Outcome(s, "Invalid format", "")
            ELSE IF setting = "currency"
            THEN IF value \in {"auto", "base", "split", "account"}
                 THEN Outcome([s EXCEPT !.currency_mode = value],
                              "Currency mode set", "")
                 ELSE Outcome(s, "Invalid mode", "")
            ELSE IF setting = "base-currency"
            THEN Outcome([s EXCEPT !.base_currency = Upper(value)],
                         "Base currency set", "")
            ELSE IF setting = "full-account"
            THEN IF Lower(value) \in {"true", "on", "yes", "1"}
                 THEN Outcome([s EXCEPT !.full_account = TRUE],
                              "Full account paths enabled", "")
                 ELSE IF Lower(value) \in {"false", "off", "no", "0"}
                 THEN Outcome([s EXCEPT !.full_account = FALSE],
                              "Short account names enabled", "")
                 ELSE Outcome(s, "Invalid value", "")
            ELSE Outcome(s, "Unknown setting", "")

\* Mutant: the test for an open book made before the command is looked at.
NeedsBookAlways(cmd) == TRUE

\* The commands run_command handles before it asks for an open book.
NeedsBook(cmd) == cmd \notin {"quit", "exit", "help", "open", "set"}

\* run_command(line); opened tells whether open_gnucash_book succeeds.
RunCommandCall(s, parts, opened) ==
    IF parts = <<>> THEN Outcome(s, "", "")
    ELSE IF parts = Unparsable THEN Outcome(s, "", "Parse error")
    ELSE LET cmd == Lower(parts[1])
             args == Tail(parts)
         IN IF NeedsBook(cmd) /\ s.book = "None"
            THEN Outcome(s, "", NoBookOpen)
            ELSE IF cmd \in {"quit", "exit"}
            THEN Outcome([s EXCEPT !.running = FALSE], "", "")
            ELSE IF cmd = "help" THEN Outcome(s, "gcg REPL Commands:", "")
            ELSE IF cmd = "open"
            THEN OpenBook(s, IF args # <<>> THEN args[1] ELSE "configured",
                          opened)
            ELSE IF cmd = "set" THEN CmdSet(s, args)
            ELSE IF cmd \in {"accounts", "grep", "ledger", "tx", "split"}
            THEN Outcome(s, cmd, "")
            ELSE Outcome(s, "", "Unknown command")

\* ReplSession(config) with the default configuration
InitRepl ==
    /\ OutsideReplIdle
    /\ session = [book |-> "None", book_info |-> "None", book_path |-> "None",
                  running |-> TRUE, output_format |-> "table",
                  currency_mode |-> "auto", base_currency |-> "EUR",
                  full_account |-> FALSE]
    /\ line = <<>>
    /\ repl_out = ""
    /\ repl_err = ""

\* session.run_command(line)
RunCommand ==
    /\ \E parts \in Lines, opened \in BOOLEAN :
        /\ line' = parts
        /\ \E o \in {RunCommandCall(session, parts, opened)} :
            /\ session' = o.session
            /\ repl_out' = o.out
            /\ repl_err' = o.err
    /\ UNCHANGED outsideRepl

NextRepl == RunCommand

SpecRepl == InitRepl /\ [][NextRepl]_vars

\* -------------------------------------------------------------- CacheManager

\* Text is a sequence of characters, so that lower() and LIKE can be computed.
LowerChar(c) == IF c = "R" THEN "r" ELSE IF c = "B" THEN "b" ELSE c

LowerText(t) == [i \in DOMAIN t |-> LowerChar(t[i])]

\* LIKE '%needle%'
Contains(hay, needle) ==
    \E i \in 0..(Len(hay) - Len(needle)) :
        \A j \in 1..Len(needle) : hay[i + j] = needle[j]

NoText == <<"None">>

\* The splits a book may hold: two in a bank account, one in a trading
\* account, one whose transaction has no description.
CacheSplits ==
    {[guid |-> "s1", type |-> "BANK", account |-> <<"B", "a", "n", "k">>,
      description |-> <<"R", "e", "n", "t">>, tx_date |-> 1],
     [guid |-> "s2", type |-> "BANK", account |-> <<"B", "a", "n", "k">>,
      description |-> <<"f", "o", "o", "d">>, tx_date |-> 2],
     [guid |-> "s3", type |-> "TRADING", account |-> <<"f", "x">>,
      description |-> <<"r", "e", "n", "t">>, tx_date |-> 3],
     [guid |-> "s4", type |-> "BANK", account |-> <<"B", "a", "n", "k">>,
      description |-> NoText, tx_date |-> 0]}

CacheBooks == SUBSET CacheSplits

SearchTexts ==
    {<<"r", "e", "n", "t">>, <<"R", "e", "n", "t">>, <<"o">>,
     <<"b", "a", "n", "k">>}

NoLimit == 0

Limits == {NoLimit, 1}

NoMeta == [schema_version |-> 0, build_time |-> 0]

\* No file at cache_path.
NoCache == [exists |-> FALSE, metadata |-> NoMeta, rows |-> {}]

\* The file as sqlite3 leaves it when an insert fails: the schema alone.
EmptyCache == [exists |-> TRUE, metadata |-> NoMeta, rows |-> {}]

SCHEMA_VERSION == 1

AlreadyExists == "Cache already exists. Use --force to rebuild."

DoesNotExist == "Cache does not exist. Run 'gcg cache build'."

\* What a CacheManager call leaves behind for its caller.
CacheReturn(op, force, dropped, found) ==
    [op |-> op, force |-> force, outcome |-> "return", error |-> "",
     dropped |-> dropped, found |-> found]

CacheRaise(op, force, error) ==
    [op |-> op, force |-> force, outcome |-> "raise", error |-> error,
     dropped |-> FALSE, found |-> <<>>]

\* The splits build inserts: those of accounts other than ROOT and TRADING.
Cached(b) == {s \in b : s.type \notin {"ROOT", "TRADING"}}

\* tx.description.lower() fails on a transaction without description.
InsertFails(b) == \E s \in Cached(b) : s.description = NoText

\* Mutant: build replaces an existing cache whether or not force is given.
RefusesNever(c, force) == FALSE

\* build refuses an existing cache unless forced.
Refuses(c, force) == c.exists /\ ~force

\* build(book, book_info, force) at time now: the file and the call's end.
BuildCall(c, b, force, now) ==
    IF Refuses(c, force)
    THEN [sidecar |-> c, last |-> CacheRaise("build", force, AlreadyExists)]
    ELSE IF InsertFails(b)
    THEN [sidecar |-> EmptyCache,
          last |-> CacheRaise("build", force, "AttributeError")]
    ELSE [sidecar |-> [exists |-> TRUE,
                       metadata |-> [schema_version |-> SCHEMA_VERSION,
                                     build_time |-> now],
                       rows |-> Cached(b)],
          last |-> CacheReturn("build", force, FALSE, <<>>)]

\* drop()
DropCall(c) ==
    [sidecar |-> NoCache, last |-> CacheReturn("drop", FALSE, c.exists, <<>>)]

\* ORDER BY tx_date DESC
RECURSIVE ByDateDesc(_)
ByDateDesc(S) ==
    IF S = {} THEN <<>>
    ELSE LET newest == CHOOSE s \in S : \A t \in S : t.tx_date <= s.tx_date
         IN <<newest.guid>> \o ByDateDesc(S \ {newest})

\* splits_fts MATCH text: a whole word of description or account name
FtsMatch(s, text) ==
    \/ LowerText(s.description) = LowerText(text)
    \/ LowerText(s.account) = LowerText(text)

\* description_lower LIKE pattern OR account_name_lower LIKE pattern
LikeMatch(s, text) ==
    \/ Contains(LowerText(s.description), LowerText(text))
    \/ Contains(LowerText(s.account), LowerText(text))

\* LIMIT ?
Limited(found, limit) ==
    IF limit # NoLimit /\ Len(found) > limit
    THEN SubSeq(found, 1, limit) ELSE found

\* search(text, use_fts, limit)
SearchCall(c, text, use_fts, limit) ==
    IF ~c.exists
    THEN [sidecar |-> c, last |-> CacheRaise("search", FALSE, DoesNotExist)]
    ELSE LET hits == {s \in c.rows : IF use_fts THEN FtsMatch(s, text)
                                                ELSE LikeMatch(s, text)}
         IN [sidecar |-> c,
             last |-> CacheReturn("search", FALSE, FALSE,
                                  Limited(ByDateDesc(hits), limit))]

\* CacheManager(cache_path, book_path) before any call
InitCache ==
    /\ OutsideCacheIdle
    /\ sidecar \in {NoCache}
    /\ sidecar_clock = 1
    /\ sidecar_last = CacheReturn("init", FALSE, FALSE, <<>>)

Build ==
    /\ sidecar_clock <= MaxBuilds
    /\ \E b \in CacheBooks, force \in BOOLEAN :
        \E r \in {BuildCall(sidecar, b, force, sidecar_clock)} :
            /\ sidecar' = r.sidecar
            /\ sidecar_last' = r.last
    /\ sidecar_clock' = sidecar_clock + 1
    /\ UNCHANGED outsideCache

Drop ==
    /\ \E r \in {DropCall(sidecar)} :
        /\ sidecar' = r.sidecar
        /\ sidecar_last' = r.last
    /\ UNCHANGED <<sidecar_clock, outsideCache>>

Search ==
    /\ \E text \in SearchTexts, use_fts \in BOOLEAN, limit \in Limits :
        \E r \in {SearchCall(sidecar, text, use_fts, limit)} :
            /\ sidecar' = r.sidecar
            /\ sidecar_last' = r.last
    /\ UNCHANGED <<sidecar_clock, outsideCache>>

NextCache == Build \/ Drop \/ Search

SpecCache == InitCache /\ [][NextCache]_vars

\* ------------------------------------ converter over a readable repository

\* Quote values of an always-readable book: those above and 3/1, whose
\* reciprocal has no finite decimal expansion.
ReadableQuoteValues == QuoteValues \cup {<<3, 1>>}

ReadableQuotes ==
    {[commodity |-> c1, currency |-> c2, date |-> d,
      value_num |-> v[1], value_denom |-> v[2]] :
        c1 \in Currencies, c2 \in Currencies, d \in CallDates,
        v \in ReadableQuoteValues}

RECURSIVE ReadableRepositories(_)
ReadableRepositories(k) ==
    IF k = 0 THEN {{}}
    ELSE LET smaller == ReadableRepositories(k - 1)
         IN smaller \cup
            {P \cup {q} : P \in smaller,
                          q \in {x \in ReadableQuotes :
                                    x.commodity # x.currency}}

\* CurrencyConverter(db_path) over a static book that can always be read,
\* with a lookback that reaches the day before.
InitFxReadable ==
    /\ SelIdle
    /\ DispIdle
    /\ LaterIdle
    /\ db_readable = TRUE
    /\ prices \in {P \in ReadableRepositories(MaxQuotes) : WellFormed(P)}
    /\ lookback_days = 1
    /\ price_cache = <<>>
    /\ queries = 0
    /\ calls = 0
    /\ last = [op |-> "none"]

SpecFxReadable == InitFxReadable /\ [][NextFx]_vars

\* ------------------------------------------ _find_balancing_subset, stepwise

SearchTargets == {-3, 0, 1, 5}

\* Pools of n candidates with values of the selector's postings.
SearchPools(n) ==
    UNION {[1..k -> Values] : k \in 0..n}

PoolSplits(vals) == [i \in DOMAIN vals |-> [guid |-> i, value |-> vals[i]]]

Frame(start, remaining, total) ==
    [start |-> start, remaining |-> remaining, total |-> total,
     idx |-> start - 1]

Top == search_stack[Len(search_stack)]

Popped == SubSeq(search_stack, 1, Len(search_stack) - 1)

\* Mutant: the size loop ending one size early, range(1, split_count).
SizesExhaustedEarly(size, split_count) == size >= split_count

\* for size in range(1, split_count + 1): the loop has run out
SizesExhausted(size, split_count) == size > split_count

\* _find_balancing_subset(splits, target) entered, before the first size
InitSearch ==
    /\ OutsideSearchIdle
    /\ search_splits \in {PoolSplits(v) : v \in SearchPools(MaxPool)}
    /\ search_target \in SearchTargets
    /\ search_size = 1
    /\ search_stack = <<>>
    /\ search_chosen = <<>>
    /\ search_ret = FALSE
    /\ search_tried = <<>>
    /\ search_result = NoSubset
    /\ search_pc = "size"

\* The head of the size loop: return None after the last size, else call
\* backtrack(0, size, 0) with chosen_indexes emptied.
SizeLoop ==
    /\ search_pc = "size"
    /\ IF SizesExhausted(search_size, Len(search_splits))
       THEN /\ search_result' = NoSubset
            /\ search_pc' = "done"
            /\ UNCHANGED <<search_stack, search_chosen>>
       ELSE /\ search_chosen' = <<>>
            /\ search_stack' = <<Frame(1, search_size, 0)>>
            /\ search_pc' = "call"
            /\ UNCHANGED search_result
    /\ UNCHANGED <<search_splits, search_target, search_size, search_ret,
                   search_tried, outsideSearch>>

\* backtrack entered: if remaining == 0: return total == target
BacktrackCall ==
    /\ search_pc = "call"
    /\ IF Top.remaining = 0
       THEN /\ search_ret' = TotalHits(Top.total, search_target)
            /\ search_tried' = Append(search_tried, search_chosen)
            /\ search_stack' = Popped
            /\ search_pc' = "ret"
       ELSE /\ search_pc' = "loop"
            /\ UNCHANGED <<search_ret, search_tried, search_stack>>
    /\ UNCHANGED <<search_splits, search_target, search_size, search_chosen,
                   search_result, outsideSearch>>

\* for idx in range(start, split_count - remaining + 1): the next idx is
\* appended and backtrack(idx + 1, remaining - 1, total + values[idx])
\* called, or the loop has run out and backtrack returns False.
BacktrackLoop ==
    /\ search_pc = "loop"
    /\ LET idx == Top.idx + 1
       IN IF idx > Len(search_splits) - Top.remaining + 1
          THEN /\ search_ret' = FALSE
               /\ search_stack' = Popped
               /\ search_pc' = "ret"
               /\ UNCHANGED search_chosen
          ELSE /\ search_chosen' = Append(search_chosen, idx)
               /\ search_stack' =
                    Append([search_stack EXCEPT ![Len(search_stack)].idx = idx],
                           Frame(idx + 1, Top.remaining - 1,
                                 Top.total + search_splits[idx].value))
               /\ search_pc' = "call"
               /\ UNCHANGED search_ret
    /\ UNCHANGED <<search_splits, search_target, search_size, search_tried,
                   search_result, outsideSearch>>

\* A backtrack call has returned into the loop body of its caller: True is
\* passed on, after False chosen_indexes.pop() and the loop goes on.
BacktrackReturn ==
    /\ search_pc = "ret"
    /\ search_stack # <<>>
    /\ IF search_ret
       THEN /\ search_stack' = Popped
            /\ search_pc' = "ret"
            /\ UNCHANGED search_chosen
       ELSE /\ search_chosen' = SubSeq(search_chosen, 1, Len(search_chosen) - 1)
            /\ search_pc' = "loop"
            /\ UNCHANGED search_stack
    /\ UNCHANGED <<search_splits, search_target, search_size, search_ret,
                   search_tried, search_result, outsideSearch>>

\* backtrack(0, size, 0) has returned to the size loop: the chosen splits
\* are returned, or the next size is tried.
SizeReturn ==
    /\ search_pc = "ret"
    /\ search_stack = <<>>
    /\ IF search_ret
       THEN /\ search_result' =
                 [found |-> TRUE,
                  subset |-> [k \in DOMAIN search_chosen |->
                                 search_splits[search_chosen[k]]]]
            /\ search_pc' = "done"
            /\ UNCHANGED search_size
       ELSE /\ search_size' = search_size + 1
            /\ search_pc' = "size"
            /\ UNCHANGED search_result
    /\ UNCHANGED <<search_splits, search_target, search_stack, search_chosen,
                   search_ret, search_tried, outsideSearch>>

NextSearch ==
    \/ SizeLoop
    \/ BacktrackCall
    \/ BacktrackLoop
    \/ BacktrackReturn
    \/ SizeReturn

\* The search is sequential code of one thread: it takes its next step.
SpecSearch == InitSearch /\ [][NextSearch]_vars /\ WF_vars(NextSearch)

\* ---------------------------------------------------------- _splits_to_rows

\* An option not given on the command line (argparse leaves None).
NoOption == "None"

BaseCurrencyOptions == {NoOption, "GBP"}

\* --fx-lookback DAYS, type=int
LookbackOptions ==
    {[given |-> FALSE, days |-> 0]} \cup
    {[given |-> TRUE, days |-> n] : n \in {0, 1}}

CommandLines ==
    [currency : Modes, base_currency : BaseCurrencyOptions,
     fx_lookback : LookbackOptions, also_original : BOOLEAN,
     signed : BOOLEAN]

\* Configurations as load_config leaves them for main: main hands it the
\* book path, the output format and the header switch only.
Configs == [base_currency : Currencies, fx_lookback_days : {2}]

\* The postings to render: -2.5 each, in an account of some commodity or of
\* none, posted on a call date.
RenderedPostings ==
    [value : {[n |-> -5, d |-> 2]}, commodity : Currencies \cup {NoCommodity},
     post_date : CallDates]

RenderedLists == UNION {[1..k -> RenderedPostings] : k \in 0..MaxRendered}

\* The price table of the book: quotes of day 1.
RowRepositories ==
    {P \in SUBSET {q \in Quotes : q.date = 1 /\ q.commodity # q.currency} :
        Cardinality(P) <= MaxQuotes /\ WellFormed(P)}

\* getattr(args, "base_currency", None) or config.base_currency
BaseCurrencyOr(option, configured) ==
    IF option # NoOption /\ option # "" THEN option ELSE configured

\* getattr(args, "fx_lookback", None) or config.fx_lookback_days
LookbackOr(option, configured) ==
    IF option.given /\ option.days # 0 THEN option.days ELSE configured

\* get_account_currencies([acc for _, _, acc in splits_data])
AccountCurrencies(list) ==
    [given |-> TRUE, currencies |-> SplitCurrencies(list)]

\* split_value = Decimal(str(split.value)); abs(split_value) unless signed
SplitValue(p, signed) ==
    IF signed THEN p.value ELSE [n |-> Abs(p.value.n), d |-> p.value.d]

\* bool(x) of an Optional[Decimal]: None and zero are false
Truthy(x) == x # None /\ x.n # 0

\* Mutant: the original amount attached whenever --also-original is given.
AttachOriginalAlways(also_original, fx_rate) == also_original

\* if also_original and fx_rate:
AttachOriginal(also_original, fx_rate) == also_original /\ Truthy(fx_rate)

NoCurrency == ""

\* SplitRow(amount, currency, fx_rate) with amount_orig and currency_orig
\* set or left at None; the other columns do not depend on currencies.
SplitRow(shown, shown_in, fx_rate, split_value, own, also_original) ==
    [amount |-> shown, currency |-> shown_in, fx_rate |-> fx_rate,
     amount_orig |-> IF AttachOriginal(also_original, fx_rate)
                     THEN split_value ELSE None,
     currency_orig |-> IF AttachOriginal(also_original, fx_rate)
                       THEN own ELSE NoCurrency]

\* The body of the loop over splits_data for posting p: the row (or that
\* convert raised) and the price cache the converter is left with.
RowOf(cache, p, target, signed, also_original) ==
    LET split_value == SplitValue(p, signed)
        split_currency == p.commodity
    IN IF target # NoTarget /\ target # "" /\ target # split_currency
       THEN LET c == ConvertCall(cache, split_value, split_currency, target,
                                 p.post_date)
            IN IF c.outcome = "raise"
               THEN [outcome |-> "raise", cache |-> c.cache,
                     selects |-> c.selects,
                     row |-> SplitRow(None, NoCurrency, None, None,
                                      NoCurrency, FALSE)]
               ELSE [outcome |-> "return", cache |-> c.cache,
                     selects |-> c.selects,
                     row |-> SplitRow(c.result.amount, c.result.currency,
                                      IF c.result.converted
                                      THEN c.result.fx_rate ELSE None,
                                      split_value, split_currency,
                                      also_original)]
       ELSE [outcome |-> "return", cache |-> cache, selects |-> 0,
             row |-> SplitRow(split_value, split_currency, None, split_value,
                              split_currency, also_original)]

\* _splits_to_rows(splits_data, config, info, args) called on a readable book
InitRows ==
    /\ OutsideRowsIdle
    /\ cli_args \in CommandLines
    /\ cli_config \in Configs
    /\ render_splits \in RenderedLists
    /\ converter_base = ""
    /\ render_target = ""
    /\ render_rows = <<>>
    /\ render_pc = "call"
    /\ prices \in RowRepositories
    /\ db_readable = TRUE
    /\ lookback_days = 0
    /\ price_cache = <<>>
    /\ queries = 0
    /\ calls = 0
    /\ last = [op |-> "none"]

\* The converter is built and the target currency determined.
RenderStart ==
    /\ render_pc = "call"
    /\ converter_base' =
        BaseCurrencyOr(cli_args.base_currency, cli_config.base_currency)
    /\ lookback_days' =
        LookbackOr(cli_args.fx_lookback, cli_config.fx_lookback_days)
    /\ price_cache' = <<>>
    /\ render_target' =
        DetermineDisplayCurrency(cli_args.currency, render_splits,
                                 AccountCurrencies(render_splits),
                                 cli_config.base_currency)
    /\ render_pc' = "loop"
    /\ UNCHANGED <<cli_args, cli_config, render_splits, render_rows>>
    /\ UNCHANGED <<prices, db_readable, queries, calls, last>>
    /\ UNCHANGED outsideRows

\* for split, tx, acc in splits_data: one posting becomes one row
RenderRow ==
    /\ render_pc = "loop"
    /\ Len(render_rows) < Len(render_splits)
    /\ \E r \in {RowOf(price_cache, render_splits[Len(render_rows) + 1],
                       render_target, cli_args.signed,
                       cli_args.also_original)} :
        /\ price_cache' = r.cache
        /\ queries' = queries + r.selects
        /\ IF r.outcome = "raise"
           THEN render_pc' = "raised" /\ UNCHANGED render_rows
           ELSE render_rows' = Append(render_rows, r.row)
                /\ UNCHANGED render_pc
    /\ UNCHANGED <<cli_args, cli_config, render_splits, converter_base,
                   render_target>>
    /\ UNCHANGED <<prices, db_readable, lookback_days, calls, last>>
    /\ UNCHANGED outsideRows

\* return rows
RenderReturn ==
    /\ render_pc = "loop"
    /\ Len(render_rows) = Len(render_splits)
    /\ render_pc' = "done"
    /\ UNCHANGED <<cli_args, cli_config, render_splits, converter_base,
                   render_target, render_rows>>
    /\ UNCHANGED fxvars
    /\ UNCHANGED outsideRows

NextRows == RenderStart \/ RenderRow \/ RenderReturn

SpecRows == InitRows /\ [][NextRows]_vars

\* ------------------------------------------------------------- properties
\* What the selector is meant to compute, stated over sets of postings and
\* independently of the search above.

Balanced == pc = "done" /\ context_mode = "balanced"

MatchedSet == {s \in Range(tx_splits) : s.guid \in matching_splits}

\* The non-matching postings of currency c: the candidate pool.
Pool(c) == {s \in Range(tx_splits) : s.cur = c /\ s.guid \notin matching_splits}

\* The sum of the values of a set of postings of the transaction.
SetSum(S) == SumValues(SelectSeq(tx_splits, LAMBDA s : s \in S))

MatchBalance(c) == SetSum({s \in MatchedSet : s.cur = c})

MatchedCurrencies == {s.cur : s \in MatchedSet}

\* The non-empty subsets of the pool that bring currency c to zero.
ValidSubsets(c) ==
    UNION {{S \in SUBSET Pool(c) : S # {} /\ SetSum(S) = target} :
              target \in {-MatchBalance(c)}}

Unbalanceable(c) ==
    c \in MatchedCurrencies /\ MatchBalance(c) # 0 /\ ValidSubsets(c) = {}

\* The matched currencies that cannot be balanced exactly.
UnbalanceableCurrencies == {c \in Currencies : Unbalanceable(c)}

\* The counter-postings of currency c in a list of postings.
AddedTo(seq, c) ==
    {s \in Range(seq) : s.cur = c /\ s.guid \notin matching_splits}

\* The candidate order: absolute value descending, then guid ascending.
Before(a, b) ==
    \/ Abs(a.value) > Abs(b.value)
    \/ (Abs(a.value) = Abs(b.value) /\ a.guid < b.guid)

First(S) == CHOOSE x \in S : \A y \in S \ {x} : Before(x, y)

NoDuplicates(seq) ==
    \A i, j \in DOMAIN seq : i # j => seq[i].guid # seq[j].guid

\* C1: when the balanced selector returns without taking the fallback, the
\* signed values of the returned postings sum to exactly zero for every
\* currency that occurs among the returned postings.
C1_BalancedSumsToZero ==
    (Balanced /\ exit = "selected") =>
        \A c \in {s.cur : s \in Range(ret)} : SumValues(OfCurrency(ret, c)) = 0

\* C1 witness: the normal return with counter-postings added in two currencies.
C1_Witness ==
    /\ Balanced /\ exit = "selected"
    /\ \A c \in Currencies : MatchBalance(c) # 0 /\ AddedTo(ret, c) # {}

\* C2: for each currency whose matching postings have a non-zero balance, the
\* number of counter-postings the selector adds equals the minimum cardinality
\* of any subset of that currency's non-matching postings summing exactly to
\* minus the balance: no valid subset of smaller size exists.
C2_MinimalCardinality ==
    Balanced =>
        /\ \A c \in Currencies :
            \A chosen \in {AddedTo(selected, c)} :
                chosen # {} =>
                    \A valid \in {ValidSubsets(c)} :
                        /\ chosen \in valid
                        /\ \A S \in valid :
                            Cardinality(S) >= Cardinality(chosen)
        /\ exit = "selected" =>
            /\ ret = selected
            /\ \A c \in MatchedCurrencies :
                MatchBalance(c) # 0 => AddedTo(ret, c) # {}

\* C2 witness: two counter-postings were added although a larger valid subset
\* (here three postings) and single candidates of the currency exist.
C2_Witness ==
    /\ Balanced /\ exit = "selected"
    /\ \E c \in Currencies :
        /\ Cardinality(AddedTo(ret, c)) = 2
        /\ \E S \in ValidSubsets(c) : Cardinality(S) = 3

\* C3: when several subsets of the minimal size sum to the target, the selector
\* returns the one that is first in lexicographic order over the candidate
\* pool sorted by absolute value descending and then guid ascending: at the
\* first candidate where the chosen subset and another valid subset of the
\* same size differ, the chosen one holds it.  The counter-postings are
\* appended in candidate order, so the selection is a function of the input.
C3_LexicographicFirst ==
    Balanced =>
        /\ \A c \in Currencies :
            \A chosen \in {AddedTo(selected, c)} :
                chosen # {} =>
                    \A S \in ValidSubsets(c) :
                        (Cardinality(S) = Cardinality(chosen) /\ S # chosen) =>
                            First((chosen \ S) \cup (S \ chosen)) \in chosen
        /\ \A i, j \in DOMAIN selected :
            (/\ i < j
             /\ selected[i].guid \notin matching_splits
             /\ selected[j].guid \notin matching_splits
             /\ selected[i].cur = selected[j].cur)
                => Before(selected[i], selected[j])

\* C3 witness: two valid subsets of the minimal size 2 whose first differing
\* candidates differ in absolute value, the chosen one holding the larger.
C3_Witness ==
    /\ Balanced /\ exit = "selected"
    /\ \E c \in Currencies :
        LET chosen == AddedTo(ret, c) IN
        /\ Cardinality(chosen) = 2
        /\ \E S \in ValidSubsets(c) :
            /\ Cardinality(S) = 2
            /\ S \cap chosen = {}
            /\ Abs(First(chosen).value) > Abs(First(S).value)

\* C3 witness of the guid tie-break: two single candidates of equal value, the
\* one with the smaller guid later in the transaction.
C3_WitnessGuid ==
    /\ Balanced /\ exit = "selected"
    /\ \E i, j \in DOMAIN tx_splits :
        /\ i < j
        /\ tx_splits[i].guid > tx_splits[j].guid
        /\ tx_splits[i].value = tx_splits[j].value
        /\ tx_splits[i].cur = tx_splits[j].cur
        /\ AddedTo(ret, tx_splits[i].cur) = {tx_splits[j]}
        /\ tx_splits[i].guid \notin matching_splits

\* C4: if for some currency with a non-zero matching balance no subset of its
\* non-matching postings sums exactly to minus the balance, the selector
\* returns all postings of the transaction, unmodified and in their original
\* order; counter-postings already chosen for other currencies are discarded.
C4_FallbackReturnsAll ==
    Balanced =>
        (UnbalanceableCurrencies # {} =>
            (exit = "fallback" /\ ret = tx_splits))

\* C4 witness: the fallback taken after counter-postings had been chosen for
\* another currency, which the returned list holds only as part of the whole.
C4_Witness ==
    /\ Balanced /\ exit = "fallback"
    /\ UnbalanceableCurrencies # {}
    /\ \E c \in Currencies : AddedTo(selected, c) # {}
    /\ ret = tx_splits
    /\ Len(selected) < Len(ret)

\* C5 (as claimed): a warning is emitted exactly when the fallback is taken;
\* with no warning the result is the matching postings plus the chosen
\* counter-postings; whenever some matched currency cannot be balanced exactly
\* a warning naming that currency is emitted.
C5_WarningNamesEveryUnbalanceable ==
    Balanced =>
        /\ (stderr # <<>>) <=> (exit = "fallback")
        /\ stderr = <<>> =>
            /\ ret = selected
            /\ SubSeq(ret, 1, Cardinality(matching_splits))
                 = Matched(tx_splits, matching_splits)
            /\ \A c \in Currencies :
                \A added \in {AddedTo(ret, c)} :
                    added # {} => added \in ValidSubsets(c)
        /\ \A c \in UnbalanceableCurrencies : c \in Range(stderr)

\* The first of the currencies U in order of first appearance among the
\* matching postings of the transaction.
FirstMatched(U) ==
    LET i == CHOOSE k \in DOMAIN tx_splits :
                /\ tx_splits[k].guid \in matching_splits
                /\ tx_splits[k].cur \in U
                /\ \A l \in 1..(k - 1) :
                    tx_splits[l].guid \in matching_splits
                        => tx_splits[l].cur \notin U
    IN tx_splits[i].cur

\* C5 (amended): a warning is emitted exactly when the fallback is taken; with
\* no warning the result is the matching postings plus the chosen
\* counter-postings; whenever some matched currency cannot be balanced exactly,
\* exactly one warning is emitted and it names the first such currency in
\* order of first appearance among the matching postings.
C5_WarningNamesFirstUnbalanceable ==
    Balanced =>
        /\ (stderr # <<>>) <=> (exit = "fallback")
        /\ stderr = <<>> =>
            /\ ret = selected
            /\ SubSeq(ret, 1, Cardinality(matching_splits))
                 = Matched(tx_splits, matching_splits)
            /\ \A c \in Currencies :
                \A added \in {AddedTo(ret, c)} :
                    added # {} => added \in ValidSubsets(c)
        /\ \A U \in {UnbalanceableCurrencies} :
            /\ U # {} => stderr = <<FirstMatched(U)>>
            /\ stderr # <<>> => U # {}

\* C5 witness: two matched currencies cannot be balanced; one warning, naming
\* the first of them.
C5_Witness ==
    /\ Balanced
    /\ UnbalanceableCurrencies = Currencies
    /\ Len(stderr) = 1
    /\ stderr[1] = FirstMatched(Currencies)

\* C6: on every path (normal or fallback) the list returned by the balanced
\* selector contains every matching posting of the transaction, contains no
\* posting twice, and contains only postings of that transaction.
C6_ReturnedPostings ==
    Balanced =>
        /\ MatchedSet \subseteq Range(ret)
        /\ NoDuplicates(ret)
        /\ Range(ret) \subseteq Range(tx_splits)

\* C6 witness: the fallback path of a transaction with two matching rows, whose
\* posting list was gathered twice before deduplication.
C6_Witness ==
    /\ Balanced /\ exit = "fallback"
    /\ Cardinality(matching_splits) >= 2
    /\ Len(ret) > Cardinality(matching_splits)

\* C6 witness on the normal path, with counter-postings added.
C6_WitnessNormal ==
    /\ Balanced /\ exit = "selected"
    /\ Cardinality(matching_splits) >= 2
    /\ Len(ret) > Cardinality(matching_splits)

\* C7: if the matching postings of a currency already sum to zero, the
\* selector adds no counter-posting of that currency, whatever non-matching
\* postings of that currency the transaction holds.
C7_AlreadyBalancedAddsNothing ==
    Balanced =>
        /\ \A c \in MatchedCurrencies :
            MatchBalance(c) = 0 => AddedTo(selected, c) = {}
        /\ exit = "selected" => ret = selected

\* C7 witness: a currency whose matching postings sum to zero while its
\* non-matching postings hold a subset that sums to zero as well.
C7_Witness ==
    /\ Balanced /\ exit = "selected"
    /\ \E c \in MatchedCurrencies :
        /\ MatchBalance(c) = 0
        /\ ValidSubsets(c) # {}
        /\ AddedTo(ret, c) = {}

\* What the last call was, for the claims about convert.
Converted(from_currency, to_currency) ==
    /\ last.op = "convert"
    /\ last.from_currency = from_currency
    /\ last.to_currency = to_currency

\* No quote of the pair, in either direction, lies in the window of on_date,
\* or the repository cannot be read.
NoQuoteAvailable(from_currency, to_currency, on_date) ==
    \/ ~db_readable
    \/ /\ InWindow(from_currency, to_currency, on_date) = {}
       /\ InWindow(to_currency, from_currency, on_date) = {}

C9_NoRateKeepsOriginal ==
    \A f \in Currencies, t \in Currencies :
        (Converted(f, t) /\ f # t) =>
            /\ NoQuoteAvailable(f, t, last.on_date) =>
                (last.outcome = "return" /\ last.rate = None)
            /\ (last.outcome = "return" /\ last.rate = None) =>
                last.result =
                    [amount |-> last.amount, currency |-> f,
                     original_amount |-> last.amount, original_currency |-> f,
                     fx_rate |-> None, converted |-> FALSE]

\* C9 witness: the only quote of the pair is older than the window; the
\* amount comes back in the source currency.
C9_Witness ==
    /\ last.op = "convert"
    /\ last.from_currency # last.to_currency
    /\ \E q \in prices : q.commodity = last.from_currency /\ q.value_num # 0
    /\ NoQuoteAvailable(last.from_currency, last.to_currency, last.on_date)
    /\ last.result.currency = last.from_currency
    /\ last.result.amount = last.amount
    /\ last.result.fx_rate = None

\* C10: when source and target currencies differ and get_price yields a rate
\* r, convert returns amount = input amount times r (the Decimal product) in
\* the target currency with converted = true and fx_rate = r, and keeps the
\* input amount and source currency in original_amount and original_currency.
\* r is the rate get_price left in the cache under (source, target, date).
C10_ConvertedByRate ==
    \A f \in Currencies, t \in Currencies :
        (Converted(f, t) /\ f # t /\ last.outcome = "return"
            /\ last.rate # None) =>
            /\ <<f, t, last.on_date>> \in DOMAIN price_cache
            /\ price_cache[<<f, t, last.on_date>>] = last.rate
            /\ last.result =
                [amount |-> DecMul(last.amount, last.rate), currency |-> t,
                 original_amount |-> last.amount, original_currency |-> f,
                 fx_rate |-> last.rate, converted |-> TRUE]

\* C10 witness: -2.5 converted at the rate 1.5 of a stored quote: -3.75, which
\* the context rounds to -3.75 at three digits and beyond.
C10_Witness ==
    /\ last.op = "convert"
    /\ last.from_currency # last.to_currency
    /\ last.outcome = "return"
    /\ last.result.converted
    /\ last.amount = [n |-> -5, d |-> 2]
    /\ last.rate = [n |-> 3, d |-> 2]
    /\ last.result.amount = [n |-> -15, d |-> 4]
    /\ last.result.currency = last.to_currency

\* C10 witness with a rate derived as a reciprocal and rounded: 7 at 1/1.5.
C10_WitnessRounded ==
    /\ last.op = "convert"
    /\ last.outcome = "return"
    /\ last.result.converted
    /\ last.amount = IntDec(7)
    /\ last.rate = DecDiv(One, [n |-> 3, d |-> 2])
    /\ last.result.amount # [n |-> 14, d |-> 3]

\* The last call was get_price between two different currencies.
PriceAsked ==
    last.op = "get_price" /\ last.from_currency # last.to_currency

\* The quotes of the pair of the last call, in either direction, dated in
\* [D - L, D] for the call's date D and the converter's lookback L.
Accepted ==
    {q \in prices :
        /\ {q.commodity, q.currency} = {last.from_currency, last.to_currency}
        /\ last.on_date - lookback_days <= q.date
        /\ q.date <= last.on_date}

\* The rates a quote yields: its own, and the reciprocal when it has one.
RatesOf(q) ==
    {QuoteRate(q)} \cup
    (IF QuoteRate(q).n = 0 THEN {} ELSE {DecDiv(One, QuoteRate(q))})

\* C11: get_price with reference date D and lookback L accepts a quote only
\* if its date lies in [D - L, D].  With no quote of the pair in the window
\* (the only quote dated D - L - 1, or dated after D) it returns None; with a
\* quote in the window (dated exactly D - L included) the quote is found; and
\* a rate read from the repository is the rate of a quote in the window.
C11_WindowBounds ==
    PriceAsked =>
        \A A \in {Accepted} :
            /\ A = {} => (last.outcome = "return" /\ last.rate = None)
            /\ A # {} => (last.outcome = "raise" \/ last.rate # None)
            /\ (last.selects > 0 /\ last.rate # None) =>
                    \E q \in A : last.rate \in RatesOf(q)

\* C11 witness: the only quote is dated exactly D - L (L = 1) and is found.
C11_Witness ==
    /\ PriceAsked /\ calls = 1
    /\ lookback_days = 1
    /\ Cardinality(prices) = 1
    /\ \A q \in prices : q.date = last.on_date - lookback_days
    /\ last.outcome = "return" /\ last.rate = [n |-> 3, d |-> 2]

\* C11 witness: the only quote is dated D - L - 1 and is not found.
C11_WitnessTooOld ==
    /\ PriceAsked /\ calls = 1
    /\ Cardinality(prices) = 1
    /\ \A q \in prices :
        /\ q.date = last.on_date - lookback_days - 1
        /\ q.commodity = last.from_currency /\ q.value_num # 0
    /\ last.outcome = "return" /\ last.rate = None /\ last.selects = 2

\* C11 witness: the only quote is dated after D and is not used.
C11_WitnessAfter ==
    /\ PriceAsked /\ calls = 1
    /\ Cardinality(prices) = 1
    /\ \A q \in prices :
        /\ q.date > last.on_date
        /\ q.commodity = last.from_currency /\ q.value_num # 0
    /\ last.outcome = "return" /\ last.rate = None /\ last.selects = 2

\* The quotes stored for (commodity -> currency) that lie in the window of
\* the last call.
AcceptedFor(commodity, currency) ==
    {q \in Accepted : q.commodity = commodity /\ q.currency = currency}

MostRecent(S) == CHOOSE q \in S : \A p \in S : p.date <= q.date

\* C12: on a fresh cache, with a direct quote of rate r stored for (A -> B)
\* in the window of D and none stored for (B -> A) there, get_price(B, A, D)
\* is the decimal reciprocal 1/r of the rate r = num/denom of the most recent
\* such quote.  (1/r exists for r # 0; a stored rate of zero is C30's case.)
C12_ReciprocalOfDirect ==
    (PriceAsked /\ calls = 1) =>
        \A direct \in {AcceptedFor(last.to_currency, last.from_currency)} :
            (/\ direct # {}
             /\ AcceptedFor(last.from_currency, last.to_currency) = {}
             /\ MostRecent(direct).value_num # 0) =>
                \A r \in {[n |-> MostRecent(direct).value_num,
                            d |-> MostRecent(direct).value_denom]} :
                    /\ last.outcome = "return"
                    /\ last.rate = DecDiv(One, DecDiv(IntDec(r.n), IntDec(r.d)))

\* C12 witness: EUR -> GBP is stored at 1.5 in the window; GBP -> EUR is asked
\* on a fresh converter and comes back as 1/1.5, rounded by the context.
C12_Witness ==
    /\ PriceAsked /\ calls = 1
    /\ last.from_currency = "GBP"
    /\ AcceptedFor("EUR", "GBP") # {}
    /\ AcceptedFor("GBP", "EUR") = {}
    /\ MostRecent(AcceptedFor("EUR", "GBP")).value_num = 3
    /\ last.rate # None
    /\ last.rate # [n |-> 3, d |-> 2]
    /\ last.rate # [n |-> 2, d |-> 3]
    /\ DecMul(last.rate, [n |-> 3, d |-> 2]) = One

\* The cache keys of the last call, as asked and reversed.
ForwardKey == <<last.from_currency, last.to_currency, last.on_date>>

ReverseKey == <<last.to_currency, last.from_currency, last.on_date>>

C14_CacheIsStable ==
    [][/\ \A k \in DOMAIN price_cache :
            k \in DOMAIN price_cache' /\ price_cache'[k] = price_cache[k]
       /\ (last'.op = "get_price"
                /\ last'.from_currency # last'.to_currency) =>
            \A key \in {<<last'.from_currency, last'.to_currency,
                           last'.on_date>>} :
                /\ last'.outcome = "return" =>
                    /\ key \in DOMAIN price_cache'
                    /\ price_cache'[key] = last'.rate
                /\ key \in DOMAIN price_cache =>
                    /\ last'.outcome = "return"
                    /\ last'.rate = price_cache[key]
                    /\ last'.selects = 0
                    /\ queries' = queries]_vars

\* C14 witness: the second of two get_price calls with the same key is served
\* from the cache, which holds that one key and a rate.
C14_Witness ==
    /\ PriceAsked /\ calls = 2
    /\ last.selects = 0 /\ queries > 0
    /\ DOMAIN price_cache = {ForwardKey}
    /\ last.rate # None
    /\ price_cache[ForwardKey] = last.rate

\* C14 witness: a convert call that queried the repository for a second key
\* left the first entry in place.
C14_WitnessKept ==
    /\ calls = 2
    /\ last.op = "convert" /\ last.price_called /\ last.selects > 0
    /\ Cardinality(DOMAIN price_cache) = 2

\* C15: when the forward key (A, B, D) is not cached and the reverse key
\* (B, A, D) is cached with a rate w that is not None, get_price(A, B, D)
\* returns the decimal reciprocal 1/w without querying the repository and
\* stores it under the forward key; when the reverse key is cached as None,
\* the call goes on to the repository lookup and stores what that yields.
\* (1/w exists for w # 0; a cached rate of zero is C30's case.)
C15_ReverseCacheHit ==
    [][(last'.op = "get_price"
            /\ last'.from_currency # last'.to_currency) =>
        \A fwd \in {<<last'.from_currency, last'.to_currency,
                       last'.on_date>>},
           rev \in {<<last'.to_currency, last'.from_currency,
                       last'.on_date>>} :
            (fwd \notin DOMAIN price_cache /\ rev \in DOMAIN price_cache) =>
                /\ (price_cache[rev] # None /\ price_cache[rev].n # 0) =>
                    /\ last'.outcome = "return"
                    /\ last'.rate = DecDiv(One, price_cache[rev])
                    /\ last'.selects = 0
                    /\ queries' = queries
                    /\ price_cache' = Put(price_cache, fwd, last'.rate)
                /\ price_cache[rev] = None =>
                    /\ db_readable => last'.selects > 0
                    /\ queries' = queries + last'.selects
                    /\ last'.outcome = "return"
                    /\ price_cache' = Put(price_cache, fwd, last'.rate)]_vars

\* C15 witness: 1.5 was cached for one direction; the reverse call returned
\* its reciprocal without a query and the cache now holds both.
C15_Witness ==
    /\ PriceAsked /\ calls = 2
    /\ last.selects = 0 /\ queries = 1
    /\ DOMAIN price_cache = {ForwardKey, ReverseKey}
    /\ price_cache[ReverseKey] = [n |-> 3, d |-> 2]
    /\ last.rate = DecDiv(One, [n |-> 3, d |-> 2])
    /\ price_cache[ForwardKey] = last.rate

\* determine_display_currency has returned.
Determined == display_pc = "done"

\* The members of the account filter set (none when it is absent).
FilterSet ==
    IF account_filter_currencies.given
    THEN account_filter_currencies.currencies ELSE {}

\* The currencies of the postings displayed (a posting whose account has no
\* commodity carries none).
PostingCurrencies ==
    {display_splits[i].commodity : i \in DOMAIN display_splits}
        \ {NoCommodity}

\* C16: in auto mode determine_display_currency never returns "no target":
\* it returns the single account-filter currency if the filter set has
\* exactly one member, otherwise the one currency of the postings if they
\* have exactly one, otherwise the configured base currency.
C16_AutoAlwaysResolves ==
    (Determined /\ mode = "auto") =>
        /\ target_currency # NoTarget
        /\ target_currency \in Currencies
        /\ IF Cardinality(FilterSet) = 1 THEN target_currency \in FilterSet
           ELSE IF Cardinality(PostingCurrencies) = 1
                THEN target_currency \in PostingCurrencies
                ELSE target_currency = base_currency

\* C16 witness: the filter has two members, all postings are in GBP, the base
\* currency is EUR: GBP.
C16_Witness ==
    /\ Determined /\ mode = "auto"
    /\ FilterSet = {"EUR", "GBP"}
    /\ Len(display_splits) >= 2
    /\ PostingCurrencies = {"GBP"}
    /\ base_currency = "EUR"
    /\ target_currency = "GBP"

\* C16 witness: a single filter currency wins over the postings' currency.
C16_WitnessFilter ==
    /\ Determined /\ mode = "auto"
    /\ FilterSet = {"GBP"}
    /\ PostingCurrencies = {"EUR"}
    /\ base_currency = "EUR"
    /\ target_currency = "GBP"

\* C16 witness: no filter, postings in two currencies: the base currency.
C16_WitnessBase ==
    /\ Determined /\ mode = "auto"
    /\ ~account_filter_currencies.given
    /\ PostingCurrencies = {"EUR", "GBP"}
    /\ target_currency = base_currency

\* C17: in account mode determine_display_currency returns the account-filter
\* currency when the filter set has exactly one member and "no target" in
\* every other case (empty, absent, two or more members), whatever the
\* postings and the base currency.
C17_AccountMode ==
    (Determined /\ mode = "account") =>
        IF Cardinality(FilterSet) = 1 THEN target_currency \in FilterSet
        ELSE target_currency = NoTarget

\* C17 witness: a filter of two currencies over postings all in the base
\* currency gives "no target".
C17_Witness ==
    /\ Determined /\ mode = "account"
    /\ FilterSet = {"EUR", "GBP"}
    /\ PostingCurrencies = {base_currency}
    /\ target_currency = NoTarget

\* C17 witness: a filter of one currency, different from the postings' and
\* the base currency.
C17_WitnessSingle ==
    /\ Determined /\ mode = "account"
    /\ FilterSet = {"GBP"}
    /\ PostingCurrencies = {"EUR"} /\ base_currency = "EUR"
    /\ target_currency = "GBP"

\* C18: determine_display_currency returns "no target" in split mode and the
\* configured base currency in base mode, for every combination of postings
\* and account-filter currencies.
C18_SplitAndBaseModes ==
    Determined =>
        /\ mode = "split" => target_currency = NoTarget
        /\ mode = "base" => target_currency = base_currency

\* C18 witness: base mode with a filter of exactly one member, which is not
\* the base currency.
C18_Witness ==
    /\ Determined /\ mode = "base"
    /\ FilterSet = {"GBP"} /\ PostingCurrencies = {"GBP"}
    /\ base_currency = "EUR"
    /\ target_currency = "EUR"

\* C18 witness: split mode with a filter of exactly one member.
C18_WitnessSplit ==
    /\ Determined /\ mode = "split"
    /\ FilterSet = {"GBP"} /\ PostingCurrencies = {"GBP"}
    /\ target_currency = NoTarget

\* C19 (as claimed): a negative lookback window is rejected with an error at
\* engine construction or at the first lookup, instead of being treated as
\* "no rate available": no lookup between two different currencies on a
\* converter built with a negative lookback returns.
C19_NegativeLookbackRejected ==
    (/\ lookback_days < 0
     /\ last.op # "none"
     /\ last.from_currency # last.to_currency) =>
        last.outcome = "raise"

\* C20: when the price repository cannot be read, get_price returns None
\* instead of raising, the failure is stored in the cache under the key asked
\* like a missing quote, and convert yields the unconverted result: the
\* input amount in the source currency, no rate, converted = false.
C20_UnreadableRepository ==
    (/\ ~db_readable
     /\ last.op # "none"
     /\ last.from_currency # last.to_currency) =>
        /\ last.outcome = "return"
        /\ last.rate = None
        /\ ForwardKey \in DOMAIN price_cache
        /\ price_cache[ForwardKey] = None
        /\ last.op = "convert" =>
            /\ last.result.amount = last.amount
            /\ last.result.currency = last.from_currency
            /\ last.result.original_amount = last.amount
            /\ last.result.original_currency = last.from_currency
            /\ last.result.fx_rate = None
            /\ last.result.converted = FALSE

\* C20 witness: get_price on an unreadable book stored None; the convert
\* that followed for the same key returned -2.5 unconverted.
C20_Witness ==
    /\ ~db_readable /\ calls = 2
    /\ last.op = "convert" /\ last.price_called
    /\ last.outcome = "return"
    /\ DOMAIN price_cache = {ForwardKey}
    /\ price_cache[ForwardKey] = None
    /\ last.amount = [n |-> -5, d |-> 2]
    /\ last.result.amount = [n |-> -5, d |-> 2]
    /\ last.result.currency = last.from_currency
    /\ ~last.result.converted

\* The transactions that have a matching posting in the batch.
MatchedTransactions == {splits_data[i].tx : i \in DOMAIN splits_data}

\* C21: in full-context mode every transaction with at least one matching
\* posting is rendered once (and no other transaction is), with every posting
\* of the transaction exactly once and in the transaction's posting order,
\* whichever and however many of its postings matched.
C21_FullContextWholeTransaction ==
    group_pc = "done" =>
        /\ \A t \in TxGuids :
            Cardinality({k \in DOMAIN tx_rows : tx_rows[k].tx_guid = t}) =
                IF t \in MatchedTransactions THEN 1 ELSE 0
        /\ \A k \in DOMAIN tx_rows :
            tx_rows[k].splits = book[tx_rows[k].tx_guid]

\* C21 witness: both postings of t1 matched, a matching row of t2 between
\* them, the other posting of t2 unmatched: two rows, each transaction whole.
C21_Witness ==
    /\ group_pc = "done"
    /\ Len(splits_data) = 3
    /\ splits_data[1].tx = "t1" /\ splits_data[2].tx = "t2"
    /\ splits_data[3].tx = "t1"
    /\ Len(book["t2"]) = 2
    /\ book["t1"][1].guid > book["t1"][2].guid
    /\ Len(tx_rows) = 2
    /\ tx_rows[1].splits = book["t1"] /\ tx_rows[2].splits = book["t2"]

\* The words, in the letter cases typed, of the commands that need a book
\* and of those that end the session.
BookWords == {"accounts", "Accounts", "grep", "ledger", "tx", "split"}

QuitWords == {"quit", "QUIT", "Exit"}

BooklessWords == QuitWords \cup {"help", "Help", "open", "set", "SET"}

\* The command of the step just taken is the word w.
Ran(w) == line' # <<>> /\ line' # Unparsable /\ line'[1] = w

\* C22: whatever commands came before, a command that needs a book
\* (accounts, grep, ledger, tx, split) run while no book is open prints
\* 'No book open' and leaves the session as it was; quit, exit, help, open
\* and set are never turned away for want of a book; quit and exit, in any
\* letter case, set running to false.
C22_BookCommandsNeedBook ==
    [][/\ \A w \in BookWords :
            Ran(w) /\ session.book = "None"
                => session' = session /\ repl_err' = NoBookOpen
       /\ \A w \in BooklessWords : Ran(w) => repl_err' # NoBookOpen
       /\ \A w \in QuitWords : Ran(w) => ~session'.running]_vars

\* A book command turned away in a session whose settings have been changed
\* and whose book failed to open.
C22_Witness ==
    /\ line # <<>>
    /\ line[1] \in BookWords
    /\ repl_err = NoBookOpen
    /\ session.book = "None"
    /\ session.output_format = "json"
    /\ session.base_currency = "GBP"

\* The session ended by a quit typed in capitals with no book open.
C22_WitnessQuit ==
    /\ line = <<"QUIT">>
    /\ session.book = "None"
    /\ ~session.running

\* The step just taken is a call of op.
Called(op) == sidecar_last'.op = op

\* C23: over any sequence of build and drop calls, build without force on
\* an existing cache raises 'already exists' and leaves the cache as it
\* was; drop returns True exactly when a cache existed and leaves none;
\* search raises 'does not exist' whenever no cache exists.
C23_BuildDropSearch ==
    [][/\ Called("build") /\ ~sidecar_last'.force /\ sidecar.exists
            => /\ sidecar_last'.outcome = "raise"
               /\ sidecar_last'.error = AlreadyExists
               /\ sidecar' = sidecar
       /\ Called("drop")
            => /\ sidecar_last'.outcome = "return"
               /\ sidecar_last'.dropped = sidecar.exists
               /\ ~sidecar'.exists
       /\ Called("search") /\ ~sidecar.exists
            => /\ sidecar_last'.outcome = "raise"
               /\ sidecar_last'.error = DoesNotExist]_vars

\* A build without force refused on a cache that the second build call
\* made, the rows of that build still in place.
C23_Witness ==
    /\ sidecar_last.op = "build"
    /\ ~sidecar_last.force
    /\ sidecar_last.error = AlreadyExists
    /\ sidecar.exists
    /\ sidecar.metadata.build_time = 2
    /\ sidecar.rows # {}

\* A drop that found a cache, and a search after the cache was dropped.
C23_WitnessDropped ==
    /\ sidecar_last.op = "drop"
    /\ sidecar_last.dropped
    /\ ~sidecar.exists
    /\ sidecar_clock > 1

C23_WitnessSearch ==
    /\ sidecar_last.op = "search"
    /\ sidecar_last.error = DoesNotExist
    /\ sidecar_clock > 1

\* What a converter with an empty cache answers to the last call's question.
FreshAnswer ==
    GetPriceCall(<<>>, last.from_currency, last.to_currency, last.on_date)

C25_DirectBeforeInverse ==
    (PriceAsked /\ last.selects > 0) =>
        \A direct \in {AcceptedFor(last.from_currency, last.to_currency)} :
            direct # {} =>
                /\ last.outcome = "return"
                /\ last.rate = QuoteRate(MostRecent(direct))
                /\ last.selects = 1

\* C25 witness: on a converter's second call the direct quote is older than
\* the inverse quote, both in the window and of different rates; the direct
\* quote's rate is returned after a single SELECT.
C25_Witness ==
    /\ PriceAsked /\ calls = 2
    /\ \E p \in AcceptedFor(last.from_currency, last.to_currency),
          q \in AcceptedFor(last.to_currency, last.from_currency) :
            /\ p.date < q.date
            /\ p.value_num = 3
            /\ q.value_num = 0
    /\ last.rate = [n |-> 3, d |-> 2]
    /\ last.selects = 1

\* The pairs of cache keys that are each other's reverse, both cached.
CachedBothWays ==
    {k \in DOMAIN price_cache : <<k[2], k[1], k[3]>> \in DOMAIN price_cache}

\* x is the context-rounded decimal reciprocal of y.
ReciprocalOf(x, y) == y # None /\ y.n # 0 /\ x = DecDiv(One, y)

\* C26 as stated: over any sequence of get_price and convert calls against
\* a static, always-readable repository, whenever both (A, B, D) and
\* (B, A, D) are cached, either both are None or both are non-null and
\* their product is exactly 1.
C26_ProductExactlyOne ==
    \A k \in CachedBothWays :
        \A x \in {price_cache[k]}, y \in {price_cache[<<k[2], k[1], k[3]>>]} :
            \/ x = None /\ y = None
            \/ x # None /\ y # None /\ DecMul(x, y) = One

\* C26 amended: whenever both (A, B, D) and (B, A, D) are cached, either
\* both are None or both are non-null and one of them is the decimal
\* reciprocal 1/x of the other, rounded by the context.
C26_ReciprocalUpToRounding ==
    \A k \in CachedBothWays :
        \A x \in {price_cache[k]}, y \in {price_cache[<<k[2], k[1], k[3]>>]} :
            \/ x = None /\ y = None
            \/ x # None /\ y # None /\ (ReciprocalOf(x, y) \/ ReciprocalOf(y, x))

\* C26 witness: 3 and its rounded reciprocal cached for the two directions.
C26_Witness ==
    \E k \in CachedBothWays :
        /\ price_cache[k] = IntDec(3)
        /\ price_cache[<<k[2], k[1], k[3]>>] = DecDiv(One, IntDec(3))
        /\ DecMul(price_cache[k], price_cache[<<k[2], k[1], k[3]>>]) # One

\* C26 witness: None cached for both directions of a pair without quotes.
C26_WitnessNone ==
    \E k \in CachedBothWays :
        /\ price_cache[k] = None
        /\ price_cache[<<k[2], k[1], k[3]>>] = None

\* The sum of the candidates at the indexes S of the pool.
RECURSIVE IndexSum(_)
IndexSum(S) ==
    IF S = {} THEN 0
    ELSE LET i == CHOOSE x \in S : TRUE
         IN search_splits[i].value + IndexSum(S \ {i})

\* The non-empty sets of pool indexes whose candidates sum to the target.
BalancingIndexSets ==
    {S \in SUBSET DOMAIN search_splits :
        S # {} /\ IndexSum(S) = search_target}

\* t is an index combination: indexes of the pool in increasing order.
IsCombination(t) ==
    /\ Len(t) \in 1..Len(search_splits)
    /\ \A k \in DOMAIN t : t[k] \in DOMAIN search_splits
    /\ \A j, k \in DOMAIN t : j < k => t[j] < t[k]

\* What the search has done so far is within bounds: sizes 1 to the pool
\* size, index combinations only, none of them tested twice; and when it has
\* ended, it says 'no subset' exactly when no balancing subset exists.
SearchWithinBounds ==
    /\ search_size \in 1..(Len(search_splits) + 1)
    /\ \A i \in DOMAIN search_tried : IsCombination(search_tried[i])
    /\ \A i, j \in DOMAIN search_tried :
            search_tried[i] = search_tried[j] => i = j
    /\ search_pc = "done" =>
        /\ (search_result = NoSubset) <=> (BalancingIndexSets = {})
        /\ search_result.found =>
                SumValues(search_result.subset) = search_target
        /\ search_result = FindBalancingSubset(search_splits, search_target)

\* C27: the subset search terminates for every finite pool and every
\* target: it tries subset sizes 1 up to the pool size only, each index
\* combination at most once, and returns 'no subset' exactly when no
\* non-empty subset of the pool sums to the target.
C27_SearchTerminates ==
    /\ []SearchWithinBounds
    /\ <>(search_pc = "done")

\* C27 witness: a pool of three candidates without balancing subset; the
\* search has tested all seven combinations and returned 'no subset'.
C27_Witness ==
    /\ search_pc = "done"
    /\ Len(search_splits) = 3
    /\ Len(search_tried) = 7
    /\ search_result = NoSubset
    /\ BalancingIndexSets = {}

\* C27 witness: no single candidate hits the target, two of them do.
C27_WitnessPair ==
    /\ search_pc = "done"
    /\ Len(search_splits) = 3
    /\ search_result.found
    /\ Len(search_result.subset) = 2
    /\ Len(search_tried) > 3

\* C30: for every content of the price repository, quotes of value zero
\* included, get_price and convert return normally and every non-null rate
\* that is returned or cached is non-zero, so that no reciprocal of a stored
\* or cached rate divides by zero.
C30_NoZeroRate ==
    last.op \in {"get_price", "convert"} =>
        /\ last.outcome = "return"
        /\ last.rate # None => last.rate.n # 0
        /\ \A k \in DOMAIN price_cache :
                price_cache[k] # None => price_cache[k].n # 0

\* Row k was converted: it shows the target currency, the amount times a
\* rate, and that rate.
ShownConverted(k) ==
    LET p == render_splits[k]
        r == render_rows[k]
    IN /\ render_target # p.commodity
       /\ r.currency = render_target
       /\ r.fx_rate # None
       /\ r.amount = DecMul(SplitValue(p, cli_args.signed), r.fx_rate)

\* Row k shows the posting as it is: own currency, own amount, no rate.
ShownOriginal(k) ==
    LET p == render_splits[k]
        r == render_rows[k]
    IN /\ r.currency = p.commodity
       /\ r.fx_rate = None
       /\ r.amount = SplitValue(p, cli_args.signed)

\* C28: when rows are rendered with a target currency, every row shows
\* either the converted amount in the target currency with the rate, or
\* (target equal to the posting's currency, or no rate available) the
\* original amount in the posting's own currency with no rate; fx_rate is
\* present exactly when the displayed currency differs from the posting's
\* own, and amount_orig and currency_orig are attached only to rows that
\* were converted.
C28_RowsConvertedOrOriginal ==
    render_target \notin {"", NoTarget} =>
        \A k \in DOMAIN render_rows :
            LET p == render_splits[k]
                r == render_rows[k]
            IN /\ ShownConverted(k) \/ ShownOriginal(k)
               /\ (render_target = p.commodity
                   \/ NoQuoteAvailable(p.commodity, render_target,
                                       p.post_date)) => ShownOriginal(k)
               /\ (r.fx_rate # None) <=> (r.currency # p.commodity)
               /\ (r.amount_orig # None \/ r.currency_orig # NoCurrency) =>
                    /\ ShownConverted(k)
                    /\ r.amount_orig = SplitValue(p, cli_args.signed)
                    /\ r.currency_orig = p.commodity

\* C28 witness: two postings rendered with --also-original in the currency
\* of the second; the first is converted at 1.5 and carries its original,
\* the second is shown as it is.
C28_Witness ==
    /\ render_pc = "done"
    /\ Len(render_rows) = 2
    /\ render_target = render_splits[2].commodity
    /\ ShownConverted(1)
    /\ render_rows[1].fx_rate = [n |-> 3, d |-> 2]
    /\ render_rows[1].amount_orig = SplitValue(render_splits[1], cli_args.signed)
    /\ render_rows[1].currency_orig = render_splits[1].commodity
    /\ ShownOriginal(2)
    /\ render_rows[2].amount_orig = None

\* C28 witness: a posting without rate to the target currency, shown in its
\* own currency although --also-original is given.
C28_WitnessNoRate ==
    /\ render_pc = "done"
    /\ cli_args.also_original
    /\ \E k \in DOMAIN render_rows :
        /\ render_target \notin {"", NoTarget, render_splits[k].commodity}
        /\ ShownOriginal(k)
        /\ render_rows[k].amount_orig = None

\* The converter has been built and the target currency determined.
RenderStarted == render_pc \in {"loop", "done", "raised"}

\* Auto mode finds no single currency and falls back to the base currency.
AutoFallsBack ==
    /\ cli_args.currency = "auto"
    /\ Cardinality(SplitCurrencies(render_splits)) # 1

\* C29: currency options on the command line take precedence over the
\* configured values when rows are rendered: with --base-currency X the
\* target currency in base mode, and as fallback of auto mode, is X, and
\* with --fx-lookback N, for every N >= 0, the converter's lookback window
\* is N days.
C29_CommandLinePrecedence ==
    RenderStarted =>
        /\ (cli_args.base_currency # NoOption
            /\ (cli_args.currency = "base" \/ AutoFallsBack))
                => render_target = cli_args.base_currency
        /\ (cli_args.fx_lookback.given /\ cli_args.fx_lookback.days >= 0)
                => lookback_days = cli_args.fx_lookback.days

====
